---- MODULE Spec2Model ----
(***************************************************************************)
(* git-cache: the cache lifecycle engine of src/git-cache.c together with  *)
(* the lock manager, the metadata sidecar (src/cache_metadata.c), the      *)
(* recovery code (src/cache_recovery.c) and the checkout repair sweep      *)
(* (src/checkout_repair.c).                                                *)
(*                                                                         *)
(* Every process is one invocation of the git-cache binary.  A step of a   *)
(* process is one system call or one external command (system()/popen()),  *)
(* which is the granularity at which the operating system interleaves      *)
(* processes working on the same cache.                                    *)
(***************************************************************************)
EXTENDS Integers, FiniteSets, Sequences, TLC

(***************************************************************************)
(* Program constants.                                                      *)
(***************************************************************************)
LOCK_TIMEOUT == 300
LOCK_WAIT_INTERVAL == 100000
LOCK_MAX_ATTEMPTS == 600
CACHE_SUCCESS == 0
CACHE_ERROR_NETWORK == -3
CACHE_ERROR_FILESYSTEM == -4
CACHE_ERROR_GIT == -5

(***************************************************************************)
(* Bounds of the model.                                                    *)
(*   NumProcs   processes (their process identifiers are 1..NumProcs)      *)
(*   TickStep   seconds by which the wall clock advances in one Tick       *)
(*   MaxTime    last value of the wall clock                               *)
(*   MaxPolls   polls of acquire_lock that are counted one by one; the     *)
(*              polls after these see the same collision and are taken in  *)
(*              one step up to LOCK_MAX_ATTEMPTS                           *)
(*   MaxFaults  external commands that fail for a reason outside the cache *)
(*              (network, upstream, disk) in one behaviour                 *)
(***************************************************************************)
NumProcs == 3
TickStep == 150
MaxTime == 450
MaxPolls == 1
MaxFaults == 1

Procs == 1..NumProcs
Paths == {"mirror", "ro", "mod"}
Checkouts == {"ro", "mod"}
Suffixes == {"tmp", "backup", "corrupted"}
TimeVals == {t \in 0..MaxTime : t % TickStep = 0}
NoLock == [ino |-> 0, pid |-> 0, mtime |-> 0]

VARIABLES
    pc,          \* pc[p]: the statement process p executes next
    alive,       \* alive[p]: kill(p, 0) == 0
    now,         \* time(NULL)
    lock,        \* lock[path]: the file <path>.lock (NoLock: no such file)
    target,      \* resource_path of the running acquire_lock/release_lock
    cont,        \* statement that follows the running acquire_lock/release_lock
    attempts,    \* acquire_lock: attempts
    holder_pid,  \* acquire_lock: holder_pid
    lock_ret,    \* value returned by acquire_lock
    holds,       \* holds[p]: paths whose acquire_lock returned CACHE_SUCCESS to
                 \* p and for which p has not called release_lock since
    fs,          \* fs[path]: the directory at the canonical path
    sib,         \* sib[path][suffix][t]: the directory <path>.<suffix>.<t>
    upstream_top,  \* the tree of the upstream repository has entries named
                 \* HEAD, refs and objects at its top level
    faults,      \* failures of external commands still to come
    loc,         \* loc[p]: the local variables of the command p runs
    cmd,         \* cmd[p]: the git-cache command process p runs
    ret          \* ret[p]: exit status of the command, once pc[p] = "done"

lockLocals == <<target, cont, attempts, holder_pid, lock_ret>>
lockState == <<lock, lockLocals, holds>>
disk == <<fs, sib>>
env == <<alive, now, upstream_top, cmd, ret>>
nonLock == <<env, disk, faults, loc>>
vars == <<pc, lockState, env, disk, faults, loc>>

(***************************************************************************)
(* Directories.  A directory is described by what the code can observe of  *)
(* it:                                                                     *)
(*   kind  "absent"   no such path                                         *)
(*         "empty"    a directory with no entry (mkdir)                    *)
(*         "plain"    a directory that holds files but no repository       *)
(*         "bare"     HEAD, refs/ and objects/ at the top level            *)
(*         "wt"       a working tree with a .git directory                 *)
(*         "partial"  what an interrupted git clone or rm -rf leaves       *)
(*         "nested"   a directory that holds nothing but another directory *)
(*                    moved into it by mv                                  *)
(*   ok    the git commands of the integrity probe succeed in it           *)
(*   top   (working tree) the tree has HEAD, refs and objects at its top   *)
(*   dirty (working tree) there are uncommitted modifications              *)
(*   mtime modification time of refs/ (bare) or of .git (working tree)     *)
(*   meta  the content of cache_metadata.json in it (NoMeta: no file)      *)
(*   shape what the clone that made the repository fetched: "full",        *)
(*         "shallow" (--depth), "treeless" (--filter=tree:0) or "blobless" *)
(*         (--filter=blob:none)                                            *)
(*   alt   (working tree) what .git/objects/info/alternates names: "own"   *)
(*         for the objects of the mirror of this URL, "other" for another  *)
(*         directory, "none" when there is no such file                    *)
(***************************************************************************)
NoMeta == [present |-> FALSE, ref_count |-> 0, last_sync_time |-> 0,
           strategy |-> "full", created_time |-> 0]
Absent == [kind |-> "absent", ok |-> FALSE, top |-> FALSE, dirty |-> FALSE,
           mtime |-> 0, meta |-> NoMeta, shape |-> "none", alt |-> "none"]
EmptyDir == [Absent EXCEPT !.kind = "empty"]
PlainDir == [Absent EXCEPT !.kind = "plain"]
Partial == [Absent EXCEPT !.kind = "partial"]
Nested == [Absent EXCEPT !.kind = "nested"]
Bare(ok, t) ==
    [Absent EXCEPT !.kind = "bare", !.ok = ok, !.mtime = t, !.shape = "full"]
Worktree(ok, top, dirty, t) ==
    [Absent EXCEPT !.kind = "wt", !.ok = ok, !.top = top, !.dirty = dirty, !.mtime = t,
                   !.shape = "full", !.alt = "own"]

\* directory_exists: stat() succeeds and names a directory.
directory_exists(d) == d.kind # "absent"

\* is_git_repository_at: <path>/HEAD is a regular file and <path>/refs and
\* <path>/objects are directories.  The sentinels are looked for at the top
\* level of the path: a bare repository has them there, a working tree only
\* when the tree itself holds entries of these names.
is_git_repository_at(d) ==
    \/ d.kind = "bare"
    \/ d.kind = "wt" /\ d.top

\* validate_git_repository(path, is_bare): the sentinels exist in the git
\* directory (the path itself, or <path>/.git) and the integrity probe passes.
validate_git_repository(d, is_bare) ==
    IF is_bare THEN d.kind = "bare" /\ d.ok
    ELSE d.kind = "wt" /\ d.ok

\* mv "<src>" "<dst>": exit status 0 unless the source does not exist.
mv_ok(src) == directory_exists(src)

\* mv "<src>" "<dst>": what is at <dst> afterwards.  An existing directory
\* receives the source as a new entry.
mv_dst(src, dst) ==
    IF ~mv_ok(src) THEN dst
    ELSE IF ~directory_exists(dst) THEN src
    ELSE IF dst.kind = "empty" THEN [Nested EXCEPT !.meta = dst.meta]
    ELSE dst

\* mv "<src>" "<dst>": what is at <src> afterwards.
mv_src(src) == Absent

\* rm -rf "<path>" unlinks the entries one by one; an empty directory goes in
\* one rmdir().
rm_started(d) == IF d.kind \in {"absent", "empty"} THEN Absent ELSE Partial

(***************************************************************************)
(* Lock manager: src/git-cache.c, lines 1195-1356.                         *)
(* A local variable of a function holds its initial value whenever the     *)
(* function is not running.                                                *)
(***************************************************************************)

\* A staleness test that does not look at the age of the lock file.
is_lock_stale_noage(path) == TRUE

\* is_lock_stale: stat() fails (no file) or the file is older than LOCK_TIMEOUT.
is_lock_stale(path) ==
    IF lock[path] = NoLock THEN TRUE
    ELSE now - lock[path].mtime > LOCK_TIMEOUT

\* read_lock_pid: -1 when the file cannot be opened or holds no number.
read_lock_pid(path) ==
    IF lock[path] = NoLock \/ lock[path].pid = 0 THEN -1
    ELSE lock[path].pid

\* is_process_running: pid > 0 and kill(pid, 0) succeeds.
is_process_running(pid) ==
    IF pid <= 0 THEN FALSE ELSE alive[pid]

\* The reclaim condition of acquire_lock, evaluated once the lock file was
\* found stale: the recorded holder is unreadable or not running.
holder_gone(pid) ==
    pid <= 0 \/ ~is_process_running(pid)

\* A call of acquire_lock(path) by p, to continue at statement k.
CallAcquire(p, path, k) ==
    /\ target' = [target EXCEPT ![p] = path]
    /\ cont' = [cont EXCEPT ![p] = k]
    /\ attempts' = [attempts EXCEPT ![p] = 0]
    /\ pc' = [pc EXCEPT ![p] = "acq_open"]
    /\ UNCHANGED <<holder_pid, lock_ret, lock, holds>>

\* A call that goes on to the next statement with the lock still held, as
\* a caller would that took its next lock inside the critical section.
CallReleaseKeep(p, path, k) ==
    /\ target' = [target EXCEPT ![p] = path]
    /\ cont' = [cont EXCEPT ![p] = k]
    /\ pc' = [pc EXCEPT ![p] = k]
    /\ UNCHANGED <<attempts, holder_pid, lock_ret, lock, holds>>

\* A call of release_lock(path) by p, to continue at statement k.
CallRelease(p, path, k) ==
    /\ target' = [target EXCEPT ![p] = path]
    /\ cont' = [cont EXCEPT ![p] = k]
    /\ pc' = [pc EXCEPT ![p] = "rel_read"]
    /\ holds' = [holds EXCEPT ![p] = @ \ {path}]
    /\ UNCHANGED <<attempts, holder_pid, lock_ret, lock>>

\* acquire_lock or release_lock returns to the statement that follows the call.
LockReturn(p) ==
    /\ pc' = [pc EXCEPT ![p] = cont[p]]
    /\ cont' = [cont EXCEPT ![p] = "none"]
    /\ target' = [target EXCEPT ![p] = "none"]
    /\ attempts' = [attempts EXCEPT ![p] = 0]

\* while (attempts < LOCK_MAX_ATTEMPTS) { open(O_CREAT | O_EXCL) ...
AcqOpen(p) ==
    /\ alive[p] /\ pc[p] = "acq_open"
    /\ IF attempts[p] >= LOCK_MAX_ATTEMPTS
       THEN \* timeout waiting for the lock
            /\ lock_ret' = [lock_ret EXCEPT ![p] = CACHE_ERROR_FILESYSTEM]
            /\ LockReturn(p)
            /\ UNCHANGED lock
       ELSE IF lock[target[p]] = NoLock
       THEN \* the file is created, still empty
            /\ lock' = [lock EXCEPT ![target[p]] = [ino |-> p, pid |-> 0, mtime |-> now]]
            /\ pc' = [pc EXCEPT ![p] = "acq_write"]
            /\ UNCHANGED <<lock_ret, target, cont, attempts>>
       ELSE \* errno == EEXIST
            /\ pc' = [pc EXCEPT ![p] = "acq_stale"]
            /\ UNCHANGED <<lock, lock_ret, target, cont, attempts>>
    /\ UNCHANGED <<nonLock, holder_pid, holds>>

\* write_lock_pid(lock_fd); return CACHE_SUCCESS.  The write goes to the file
\* the descriptor was opened on, which is the file at the lock path only as
\* long as nobody unlinked it.
AcqWrite(p) ==
    /\ alive[p] /\ pc[p] = "acq_write"
    /\ lock' = IF lock[target[p]].ino = p
               THEN [lock EXCEPT ![target[p]] = [ino |-> p, pid |-> p, mtime |-> now]]
               ELSE lock
    /\ lock_ret' = [lock_ret EXCEPT ![p] = CACHE_SUCCESS]
    /\ holds' = [holds EXCEPT ![p] = @ \cup {target[p]}]
    /\ LockReturn(p)
    /\ UNCHANGED <<nonLock, holder_pid>>

\* if (is_lock_stale(lock_path)) ... else fall to the wait
AcqStale(p) ==
    /\ alive[p] /\ pc[p] = "acq_stale"
    /\ pc' = [pc EXCEPT ![p] = IF is_lock_stale(target[p]) THEN "acq_readpid" ELSE "acq_sleep"]
    /\ UNCHANGED <<nonLock, lock, lockLocals, holds>>

\* pid_t holder_pid = read_lock_pid(lock_path);
AcqReadPid(p) ==
    /\ alive[p] /\ pc[p] = "acq_readpid"
    /\ holder_pid' = [holder_pid EXCEPT ![p] = read_lock_pid(target[p])]
    /\ pc' = [pc EXCEPT ![p] = "acq_probe"]
    /\ UNCHANGED <<nonLock, lock, target, cont, attempts, lock_ret, holds>>

\* if (holder_pid <= 0 || !is_process_running(holder_pid))
AcqProbe(p) ==
    /\ alive[p] /\ pc[p] = "acq_probe"
    /\ pc' = [pc EXCEPT ![p] = IF holder_gone(holder_pid[p]) THEN "acq_unlink" ELSE "acq_sleep"]
    /\ holder_pid' = [holder_pid EXCEPT ![p] = -1]
    /\ UNCHANGED <<nonLock, lock, target, cont, attempts, lock_ret, holds>>

\* unlink(lock_path); continue;
AcqUnlink(p) ==
    /\ alive[p] /\ pc[p] = "acq_unlink"
    /\ lock' = [lock EXCEPT ![target[p]] = NoLock]
    /\ pc' = [pc EXCEPT ![p] = "acq_open"]
    /\ UNCHANGED <<nonLock, lockLocals, holds>>

\* usleep(LOCK_WAIT_INTERVAL); attempts++;
AcqSleep(p) ==
    /\ alive[p] /\ pc[p] = "acq_sleep"
    /\ attempts' = [attempts EXCEPT ![p] =
                       IF @ < MaxPolls THEN @ + 1 ELSE LOCK_MAX_ATTEMPTS]
    /\ pc' = [pc EXCEPT ![p] = "acq_open"]
    /\ UNCHANGED <<nonLock, lock, target, cont, holder_pid, lock_ret, holds>>

\* release_lock: pid_t lock_pid = read_lock_pid(lock_path);
\*               if (lock_pid == getpid()) ...
RelRead(p) ==
    /\ alive[p] /\ pc[p] = "rel_read"
    /\ IF read_lock_pid(target[p]) = p
       THEN /\ pc' = [pc EXCEPT ![p] = "rel_unlink"]
            /\ UNCHANGED <<target, cont, attempts>>
       ELSE LockReturn(p)
    /\ UNCHANGED <<nonLock, lock, holder_pid, lock_ret, holds>>

\* release_lock: unlink(lock_path);
RelUnlink(p) ==
    /\ alive[p] /\ pc[p] = "rel_unlink"
    /\ lock' = [lock EXCEPT ![target[p]] = NoLock]
    /\ LockReturn(p)
    /\ UNCHANGED <<nonLock, holder_pid, lock_ret, holds>>

\* usleep(LOCK_WAIT_INTERVAL); attempts++;  with the wall clock: the sleeps
\* are counted one by one, and time(NULL) is one second later after every
\* PollsPerSecond of them.
PollsPerSecond == 1000000 \div LOCK_WAIT_INTERVAL

AcqSleepTimed(p) ==
    /\ alive[p] /\ pc[p] = "acq_sleep"
    /\ attempts' = [attempts EXCEPT ![p] = @ + 1]
    /\ now' = IF (attempts[p] + 1) % PollsPerSecond = 0 THEN now + 1 ELSE now
    /\ pc' = [pc EXCEPT ![p] = "acq_open"]
    /\ UNCHANGED <<alive, upstream_top, cmd, ret, disk, faults, loc,
                   lock, target, cont, holder_pid, lock_ret, holds>>

LockStep(p) ==
    \/ AcqOpen(p) \/ AcqWrite(p) \/ AcqStale(p) \/ AcqReadPid(p)
    \/ AcqProbe(p) \/ AcqUnlink(p) \/ AcqSleep(p)
    \/ RelRead(p) \/ RelUnlink(p)

(***************************************************************************)
(* Local variables of the commands.  Every field carries the name of the   *)
(* C variable it models; a field holds its initial value whenever the      *)
(* function that declares it is not running.                               *)
(*   chk            checkout_path of the running create_reference_checkout *)
(*   temp_path      timestamp in temp_path (NULL_PATH: not set)            *)
(*   backup_path    timestamp in backup_path (NULL_PATH: NULL)             *)
(*   metadata       struct cache_metadata loaded by the cache_metadata_*   *)
(*                  function that is running                               *)
(*   result         value the running function is about to return          *)
(*   attempt        retry_network_operation_with_progress: attempt         *)
(*   synced_count, failed_count   cache_sync                               *)
(*   last_sync      repair_all_checkouts_for_repo: last_sync               *)
(*   checkout_status  verify_and_repair_repository: checkout_status and    *)
(*                  modifiable_status, which are set together              *)
(*   materialized   (history) the process has run the bare clone and       *)
(*                  renamed it into the mirror path; kept after the return *)
(***************************************************************************)
NULL_PATH == -1
max_retries == 3

NoLocals == [chk |-> "none", temp_path |-> NULL_PATH, backup_path |-> NULL_PATH,
             metadata |-> NoMeta, result |-> CACHE_SUCCESS, attempt |-> 0, exit_code |-> 0,
             strategy |-> "CLONE_STRATEGY_FULL",
             synced_count |-> 0, failed_count |-> 0,
             last_sync |-> 0, checkout_status |-> "ok",
             materialized |-> FALSE]

Goto(p, label) == pc' = [pc EXCEPT ![p] = label]

\* An external command ends with outcome r.  It can succeed only if the
\* state of the cache lets it (pre), and it fails either because the state
\* of the cache makes it fail or because of a fault outside the cache.
Outcome(r, pre) ==
    /\ r = "ok" => pre
    /\ r = "fail" => (~pre \/ faults > 0)
    /\ faults' = IF r = "fail" /\ pre THEN faults - 1 ELSE faults

(***************************************************************************)
(* The environment: the wall clock, and the operating system ending a      *)
(* process (with the external command it is running, if any).  The memory  *)
(* of a killed process is gone; what it wrote to the disk stays.           *)
(***************************************************************************)
Tick ==
    /\ now + TickStep <= MaxTime
    /\ now' = now + TickStep
    /\ UNCHANGED <<pc, alive, upstream_top, cmd, ret, lockState, disk, faults, loc>>

Kill(p) ==
    /\ alive[p]
    /\ alive' = [alive EXCEPT ![p] = FALSE]
    /\ pc' = [pc EXCEPT ![p] = "killed"]
    /\ target' = [target EXCEPT ![p] = "none"]
    /\ cont' = [cont EXCEPT ![p] = "none"]
    /\ attempts' = [attempts EXCEPT ![p] = 0]
    /\ holder_pid' = [holder_pid EXCEPT ![p] = -1]
    /\ lock_ret' = [lock_ret EXCEPT ![p] = CACHE_SUCCESS]
    /\ holds' = [holds EXCEPT ![p] = {}]
    /\ loc' = [loc EXCEPT ![p] = NoLocals]
    /\ UNCHANGED <<now, upstream_top, cmd, ret, lock, disk, faults>>

\* The process returns from main() with exit status r.
Return(p, r) ==
    /\ ret' = [ret EXCEPT ![p] = r]
    /\ alive' = [alive EXCEPT ![p] = FALSE]
    /\ pc' = [pc EXCEPT ![p] = "done"]
    /\ loc' = [loc EXCEPT ![p] = [NoLocals EXCEPT !.materialized = loc[p].materialized,
                                                  !.strategy = loc[p].strategy]]
    /\ UNCHANGED <<now, upstream_top, cmd>>

\* RETURN_WITH_LOCK_CLEANUP and the return statements that follow a failure:
\* the command ends with the value kept in result.
RetResult(p) ==
    /\ alive[p] /\ pc[p] = "ret_result"
    /\ Return(p, loc[p].result)
    /\ UNCHANGED <<lockState, disk, faults>>


(***************************************************************************)
(* Metadata sidecar: src/cache_metadata.c.  cache_metadata_load reads      *)
(* <cache_path>/cache_metadata.json, cache_metadata_save rewrites it.      *)
(***************************************************************************)

\* cache_metadata_load succeeds when the file exists.
cache_metadata_load_ok(d) == d.meta.present

\* A conversion that has a name for every value of the configuration file.
strategy_to_string_auto(strategy) ==
    IF strategy = "CLONE_STRATEGY_AUTO" THEN "auto"
    ELSE IF strategy = "CLONE_STRATEGY_SHALLOW" THEN "shallow"
    ELSE IF strategy = "CLONE_STRATEGY_TREELESS" THEN "treeless"
    ELSE IF strategy = "CLONE_STRATEGY_BLOBLESS" THEN "blobless"
    ELSE "full"

\* strategy_to_string: the name written to the file, "full" by default.
strategy_to_string(strategy) ==
    CASE strategy = "CLONE_STRATEGY_FULL" -> "full"
      [] strategy = "CLONE_STRATEGY_SHALLOW" -> "shallow"
      [] strategy = "CLONE_STRATEGY_TREELESS" -> "treeless"
      [] strategy = "CLONE_STRATEGY_BLOBLESS" -> "blobless"
      [] OTHER -> "full"

\* string_to_strategy: the value read back, CLONE_STRATEGY_FULL for any
\* other string.
string_to_strategy_first(str) == "CLONE_STRATEGY_SHALLOW"
string_to_strategy(str) ==
    IF str = "shallow" THEN "CLONE_STRATEGY_SHALLOW"
    ELSE IF str = "treeless" THEN "CLONE_STRATEGY_TREELESS"
    ELSE IF str = "blobless" THEN "CLONE_STRATEGY_BLOBLESS"
    ELSE "CLONE_STRATEGY_FULL"

\* cache_metadata_save: fopen(metadata_path, "w") succeeds when the directory
\* exists; the file becomes an entry of the directory.
cache_metadata_save(d, m) ==
    IF ~directory_exists(d) THEN d
    ELSE [d EXCEPT !.meta = [m EXCEPT !.present = TRUE,
                                      !.strategy = strategy_to_string(@)],
                   !.kind = IF @ = "empty" THEN "plain" ELSE @]

(***************************************************************************)
(* cache_clone_repository: src/git-cache.c, lines 2487-2680.               *)
(***************************************************************************)

\* ret = ensure_directory_exists(repo->cache_path);
CloneMkdirCache(p) ==
    /\ alive[p] /\ pc[p] = "clone_mkdir_cache"
    /\ fs' = [fs EXCEPT !["mirror"] = IF directory_exists(@) THEN @ ELSE EmptyDir]
    /\ Goto(p, "clone_mkdir_checkout")
    /\ UNCHANGED <<lockState, env, sib, faults, loc>>

\* ret = ensure_directory_exists(repo->checkout_path);
\* (of the modifiable path only the parent directory is created)
\* ret = create_cache_repository(repo, config);  lock_ret = acquire_lock(...)
CloneMkdirCheckout(p) ==
    /\ alive[p] /\ pc[p] = "clone_mkdir_checkout"
    /\ fs' = [fs EXCEPT !["ro"] = IF directory_exists(@) THEN @ ELSE EmptyDir]
    /\ CallAcquire(p, "mirror", "ccr_locked")
    /\ UNCHANGED <<env, sib, faults, loc>>

(***************************************************************************)
(* create_cache_repository: src/git-cache.c, lines 1362-1712.              *)
(***************************************************************************)

\* if (lock_ret != CACHE_SUCCESS) RETURN_WITH_LOCK_CLEANUP(cache_path, lock_ret);
\* if (directory_exists(cache_path)) { if (is_git_repository_at(cache_path)) {
\*     if (validate_git_repository(cache_path, 1)) ...
CcrInspect(p) ==
    /\ alive[p] /\ pc[p] = "ccr_locked"
    /\ IF lock_ret[p] # CACHE_SUCCESS
       THEN /\ loc' = [loc EXCEPT ![p].result = lock_ret[p]]
            /\ CallRelease(p, "mirror", "ret_result")
       ELSE /\ Goto(p, IF ~directory_exists(fs["mirror"]) THEN "ccr_clone"
                       ELSE IF ~is_git_repository_at(fs["mirror"]) THEN "ccr_rm"
                       ELSE IF validate_git_repository(fs["mirror"], TRUE) THEN "ccr_fetch"
                       ELSE "ccr_backup")
            /\ UNCHANGED <<lockState, loc>>
    /\ UNCHANGED <<env, disk, faults>>

\* git fetch origin '+refs/heads/*:refs/heads/*' --prune, in the mirror.  A
\* failed fetch is not an error of the command.
CcrFetch(p) ==
    /\ alive[p] /\ pc[p] = "ccr_fetch"
    /\ \E r \in {"ok", "fail"}, new_refs \in BOOLEAN :
          /\ Outcome(r, validate_git_repository(fs["mirror"], TRUE))
          /\ r = "fail" => ~new_refs
          /\ fs' = [fs EXCEPT !["mirror"].mtime = IF new_refs THEN now ELSE @]
          /\ IF r = "ok"
             THEN /\ Goto(p, "ccr_sync_load")
                  /\ UNCHANGED <<lockState, loc>>
             ELSE /\ loc' = [loc EXCEPT ![p].chk = "ro"]
                  /\ CallRelease(p, "mirror", "crc_validate")
    /\ UNCHANGED <<env, sib>>

\* cache_metadata_update_sync: cache_metadata_load; last_sync_time = time(NULL)
CcrSyncLoad(p) ==
    /\ alive[p] /\ pc[p] = "ccr_sync_load"
    /\ IF cache_metadata_load_ok(fs["mirror"])
       THEN /\ loc' = [loc EXCEPT ![p].metadata =
                          [fs["mirror"].meta EXCEPT
                              !.strategy = string_to_strategy(@),
                              !.last_sync_time = now]]
            /\ Goto(p, "ccr_sync_save")
            /\ UNCHANGED lockState
       ELSE /\ loc' = [loc EXCEPT ![p].chk = "ro"]
            /\ CallRelease(p, "mirror", "crc_validate")
    /\ UNCHANGED <<env, disk, faults>>

\* cache_metadata_update_sync: cache_metadata_save;
\* RETURN_WITH_LOCK_CLEANUP(repo->cache_path, CACHE_SUCCESS);
CcrSyncSave(p) ==
    /\ alive[p] /\ pc[p] = "ccr_sync_save"
    /\ fs' = [fs EXCEPT !["mirror"] = cache_metadata_save(@, loc[p].metadata)]
    /\ loc' = [loc EXCEPT ![p].metadata = NoMeta, ![p].chk = "ro"]
    /\ CallRelease(p, "mirror", "crc_validate")
    /\ UNCHANGED <<env, sib, faults>>

\* backup_repository(cache_path, &backup_path): mv path path.backup.<now>
CcrBackup(p) ==
    /\ alive[p] /\ pc[p] = "ccr_backup"
    /\ IF mv_ok(fs["mirror"])
       THEN /\ sib' = [sib EXCEPT !["mirror"]["backup"][now] = mv_dst(fs["mirror"], @)]
            /\ fs' = [fs EXCEPT !["mirror"] = mv_src(@)]
            /\ loc' = [loc EXCEPT ![p].backup_path = now]
            /\ Goto(p, "ccr_clone")
            /\ UNCHANGED lockState
       ELSE /\ loc' = [loc EXCEPT ![p].result = CACHE_ERROR_FILESYSTEM]
            /\ CallRelease(p, "mirror", "ret_result")
            /\ UNCHANGED disk
    /\ UNCHANGED <<env, faults>>

\* safe_remove_directory(cache_path): rm -rf is running
CcrRm(p) ==
    /\ alive[p] /\ pc[p] = "ccr_rm"
    /\ fs' = [fs EXCEPT !["mirror"] = rm_started(@)]
    /\ Goto(p, "ccr_rm_end")
    /\ UNCHANGED <<lockState, env, sib, faults, loc>>

\* safe_remove_directory(cache_path): rm -rf has ended
CcrRmEnd(p) ==
    /\ alive[p] /\ pc[p] = "ccr_rm_end"
    /\ fs' = [fs EXCEPT !["mirror"] = Absent]
    /\ Goto(p, "ccr_clone")
    /\ UNCHANGED <<lockState, env, sib, faults, loc>>

\* switch (repo->strategy): --filter=tree:0 for treeless, --filter=blob:none
\* for blobless; shallow falls through to the full clone.
MirrorShapeAsRequested(strategy) == strategy_to_string(strategy)
MirrorShape(strategy) ==
    CASE strategy = "CLONE_STRATEGY_TREELESS" -> "treeless"
      [] strategy = "CLONE_STRATEGY_BLOBLESS" -> "blobless"
      [] OTHER -> "full"

\* temp_path = <cache_path>.tmp.<time(NULL)>;
\* retry_network_operation_with_progress: system("git clone --bare ... temp_path")
\* starts.  git refuses a destination that exists and is not empty (128).
CcrClone(p) ==
    /\ alive[p] /\ pc[p] = "ccr_clone"
    /\ LET t == IF loc[p].attempt = 0 THEN now ELSE loc[p].temp_path
       IN  IF sib["mirror"]["tmp"][t].kind \in {"absent", "empty"}
           THEN /\ sib' = [sib EXCEPT !["mirror"]["tmp"][t] = Partial]
                /\ loc' = [loc EXCEPT ![p].temp_path = t]
                /\ Goto(p, "ccr_clone_end")
           ELSE /\ loc' = [loc EXCEPT ![p].temp_path = t, ![p].attempt = 0,
                                      ![p].result = CACHE_ERROR_GIT]
                /\ Goto(p, "ccr_fail_rm")
                /\ UNCHANGED sib
    /\ UNCHANGED <<lockState, env, fs, faults>>

\* retry_network_operation_with_progress: the git clone ends with exit_code.
\* 0 returns 0; 128 and 1 return at once; another code is retried until
\* max_retries attempts were made.  A clone that fails removes what it made.
CcrCloneEnd(p) ==
    /\ alive[p] /\ pc[p] = "ccr_clone_end"
    /\ LET t == loc[p].temp_path
       IN \E exit_code \in {0, 2, 128} :
          /\ Outcome(IF exit_code = 0 THEN "ok" ELSE "fail",
                     sib["mirror"]["tmp"][t].kind = "partial")
          /\ IF exit_code = 0
             THEN /\ sib' = [sib EXCEPT !["mirror"]["tmp"][t] =
                                [Bare(TRUE, now) EXCEPT
                                    !.shape = MirrorShape(loc[p].strategy)]]
                  /\ loc' = [loc EXCEPT ![p].attempt = 0, ![p].exit_code = 0]
                  /\ Goto(p, "ccr_validate")
             ELSE /\ sib' = [sib EXCEPT !["mirror"]["tmp"][t] =
                                IF @.kind = "partial" THEN Absent ELSE @]
                  /\ IF exit_code # 128 /\ exit_code # 1 /\ loc[p].attempt + 1 < max_retries
                     THEN /\ loc' = [loc EXCEPT ![p].attempt = @ + 1,
                                                ![p].exit_code = exit_code]
                          /\ Goto(p, "ccr_clone")
                     ELSE /\ loc' = [loc EXCEPT ![p].attempt = 0,
                                                ![p].exit_code = exit_code,
                                                ![p].result = CACHE_ERROR_GIT]
                          /\ Goto(p, "ccr_fail_rm")
    /\ UNCHANGED <<lockState, env, fs>>

\* if (!validate_git_repository(temp_path, 1)) ... CACHE_ERROR_GIT
CcrValidate(p) ==
    /\ alive[p] /\ pc[p] = "ccr_validate"
    /\ IF validate_git_repository(sib["mirror"]["tmp"][loc[p].temp_path], TRUE)
       THEN /\ Goto(p, "ccr_mv")
            /\ UNCHANGED loc
       ELSE /\ loc' = [loc EXCEPT ![p].result = CACHE_ERROR_GIT]
            /\ Goto(p, "ccr_fail_rm")
    /\ UNCHANGED <<lockState, env, disk, faults>>

\* system("mv temp_path cache_path")
CcrMv(p) ==
    /\ alive[p] /\ pc[p] = "ccr_mv"
    /\ LET t == loc[p].temp_path
       IN  IF mv_ok(sib["mirror"]["tmp"][t])
           THEN /\ fs' = [fs EXCEPT !["mirror"] = mv_dst(sib["mirror"]["tmp"][t], @)]
                /\ sib' = [sib EXCEPT !["mirror"]["tmp"][t] = mv_src(@)]
                /\ loc' = [loc EXCEPT ![p].temp_path = NULL_PATH,
                                      ![p].materialized = TRUE]
                /\ Goto(p, IF loc[p].backup_path # NULL_PATH THEN "ccr_rm_backup"
                           ELSE "ccr_meta")
           ELSE /\ loc' = [loc EXCEPT ![p].result = CACHE_ERROR_FILESYSTEM]
                /\ Goto(p, "ccr_fail_rm")
                /\ UNCHANGED disk
    /\ UNCHANGED <<lockState, env, faults>>

\* safe_remove_directory(backup_path) after the move succeeded
CcrRmBackup(p) ==
    /\ alive[p] /\ pc[p] = "ccr_rm_backup"
    /\ sib' = [sib EXCEPT !["mirror"]["backup"][loc[p].backup_path] = Absent]
    /\ loc' = [loc EXCEPT ![p].backup_path = NULL_PATH]
    /\ Goto(p, "ccr_meta")
    /\ UNCHANGED <<lockState, env, fs, faults>>

\* metadata = cache_metadata_create(repo); metadata->last_sync_time = time(NULL);
\* cache_metadata_save(cache_path, metadata);
\* RETURN_WITH_LOCK_CLEANUP(repo->cache_path, CACHE_SUCCESS);
CcrMeta(p) ==
    /\ alive[p] /\ pc[p] = "ccr_meta"
    /\ fs' = [fs EXCEPT !["mirror"] =
                 cache_metadata_save(@, [NoMeta EXCEPT
                                            !.strategy = loc[p].strategy,
                                            !.created_time = now,
                                            !.ref_count = 0,
                                            !.last_sync_time = now])]
    /\ loc' = [loc EXCEPT ![p].chk = "ro"]
    /\ CallRelease(p, "mirror", "crc_validate")
    /\ UNCHANGED <<env, sib, faults>>

\* after a failure: safe_remove_directory(temp_path);
CcrFailRm(p) ==
    /\ alive[p] /\ pc[p] = "ccr_fail_rm"
    /\ sib' = [sib EXCEPT !["mirror"]["tmp"][loc[p].temp_path] = Absent]
    /\ loc' = [loc EXCEPT ![p].temp_path = NULL_PATH]
    /\ IF loc[p].backup_path # NULL_PATH
       THEN /\ Goto(p, "ccr_restore")
            /\ UNCHANGED lockState
       ELSE CallRelease(p, "mirror", "ret_result")
    /\ UNCHANGED <<env, fs, faults>>

\* after a failure: restore_from_backup(backup_path, cache_path), whose value
\* is not looked at; RETURN_WITH_LOCK_CLEANUP(cache_path, <error>);
CcrRestore(p) ==
    /\ alive[p] /\ pc[p] = "ccr_restore"
    /\ LET b == loc[p].backup_path
       IN  /\ fs' = [fs EXCEPT !["mirror"] = mv_dst(sib["mirror"]["backup"][b], @)]
           /\ sib' = [sib EXCEPT !["mirror"]["backup"][b] = mv_src(@)]
    /\ loc' = [loc EXCEPT ![p].backup_path = NULL_PATH]
    /\ CallRelease(p, "mirror", "ret_result")
    /\ UNCHANGED <<env, faults>>

CcrStep(p) ==
    \/ CcrInspect(p) \/ CcrFetch(p) \/ CcrSyncLoad(p) \/ CcrSyncSave(p)
    \/ CcrBackup(p) \/ CcrRm(p) \/ CcrRmEnd(p) \/ CcrClone(p) \/ CcrCloneEnd(p)
    \/ CcrValidate(p) \/ CcrMv(p) \/ CcrRmBackup(p) \/ CcrMeta(p)
    \/ CcrFailRm(p) \/ CcrRestore(p)

(***************************************************************************)
(* create_reference_checkouts and create_reference_checkout:               *)
(* src/git-cache.c, lines 1773-2100.  chk is the checkout being made:      *)
(* first repo->checkout_path ("ro"), then repo->modifiable_path ("mod").   *)
(***************************************************************************)

\* if (!validate_git_repository(cache_path, 1)) return CACHE_ERROR_GIT;
\* lock_ret = acquire_lock(checkout_path, config);
CrcValidate(p) ==
    /\ alive[p] /\ pc[p] = "crc_validate"
    /\ IF validate_git_repository(fs["mirror"], TRUE)
       THEN /\ CallAcquire(p, loc[p].chk, "crc_locked")
            /\ UNCHANGED <<env, loc>>
       ELSE /\ Return(p, CACHE_ERROR_GIT)
            /\ UNCHANGED lockState
    /\ UNCHANGED <<disk, faults>>

\* if (lock_ret != CACHE_SUCCESS) return lock_ret;
\* if (directory_exists(checkout_path)) { if (is_git_repository_at(checkout_path)) {
\*     if (validate_git_repository(checkout_path, 0)) ...
CrcInspect(p) ==
    /\ alive[p] /\ pc[p] = "crc_locked"
    /\ IF lock_ret[p] # CACHE_SUCCESS
       THEN /\ Return(p, lock_ret[p])
       ELSE /\ Goto(p, LET d == fs[loc[p].chk]
                       IN  IF ~directory_exists(d) THEN "crc_cleanup"
                           ELSE IF ~is_git_repository_at(d) THEN "crc_rm"
                           ELSE IF validate_git_repository(d, FALSE) THEN "crc_pull"
                           ELSE "crc_backup")
            /\ UNCHANGED <<env, loc>>
    /\ UNCHANGED <<lockState, disk, faults>>

\* git pull --ff-only in the checkout; its exit status only prints a warning.
\* A fast-forward keeps the modifications of the working tree.
CrcPull(p) ==
    /\ alive[p] /\ pc[p] = "crc_pull"
    /\ \E r \in {"ok", "fail"} :
          /\ Outcome(r, validate_git_repository(fs[loc[p].chk], FALSE))
          /\ fs' = [fs EXCEPT ![loc[p].chk].mtime = IF r = "ok" THEN now ELSE @]
    /\ Goto(p, "crc_access_load")
    /\ UNCHANGED <<lockState, env, sib, loc>>

\* cache_metadata_update_access(cache_path): cache_metadata_load
CrcAccessLoad(p) ==
    /\ alive[p] /\ pc[p] = "crc_access_load"
    /\ IF cache_metadata_load_ok(fs["mirror"])
       THEN /\ loc' = [loc EXCEPT ![p].metadata =
                          [fs["mirror"].meta EXCEPT
                              !.strategy = string_to_strategy(@)]]
            /\ Goto(p, "crc_access_save")
            /\ UNCHANGED lockState
       ELSE /\ CallRelease(p, loc[p].chk, "crc_return")
            /\ UNCHANGED loc
    /\ UNCHANGED <<env, disk, faults>>

\* cache_metadata_update_access(cache_path): cache_metadata_save;
\* RETURN_WITH_LOCK_CLEANUP(checkout_path, CACHE_SUCCESS);
CrcAccessSave(p) ==
    /\ alive[p] /\ pc[p] = "crc_access_save"
    /\ fs' = [fs EXCEPT !["mirror"] = cache_metadata_save(@, loc[p].metadata)]
    /\ loc' = [loc EXCEPT ![p].metadata = NoMeta]
    /\ CallRelease(p, loc[p].chk, "crc_return")
    /\ UNCHANGED <<env, sib, faults>>

\* backup_repository(checkout_path, &backup_path)
CrcBackup(p) ==
    /\ alive[p] /\ pc[p] = "crc_backup"
    /\ LET c == loc[p].chk
       IN  IF mv_ok(fs[c])
           THEN /\ sib' = [sib EXCEPT ![c]["backup"][now] = mv_dst(fs[c], @)]
                /\ fs' = [fs EXCEPT ![c] = mv_src(@)]
                /\ loc' = [loc EXCEPT ![p].backup_path = now]
                /\ Goto(p, "crc_cleanup")
                /\ UNCHANGED lockState
           ELSE /\ loc' = [loc EXCEPT ![p].result = CACHE_ERROR_FILESYSTEM]
                /\ CallRelease(p, c, "crc_return")
                /\ UNCHANGED disk
    /\ UNCHANGED <<env, faults>>

\* safe_remove_directory(checkout_path): rm -rf is running
CrcRm(p) ==
    /\ alive[p] /\ pc[p] = "crc_rm"
    /\ fs' = [fs EXCEPT ![loc[p].chk] = rm_started(@)]
    /\ Goto(p, "crc_rm_end")
    /\ UNCHANGED <<lockState, env, sib, faults, loc>>

\* safe_remove_directory(checkout_path): rm -rf has ended
CrcRmEnd(p) ==
    /\ alive[p] /\ pc[p] = "crc_rm_end"
    /\ fs' = [fs EXCEPT ![loc[p].chk] = Absent]
    /\ Goto(p, "crc_cleanup")
    /\ UNCHANGED <<lockState, env, sib, faults, loc>>

\* system("rm -rf <checkout_path>.tmp.*")
CrcCleanup(p) ==
    /\ alive[p] /\ pc[p] = "crc_cleanup"
    /\ sib' = [sib EXCEPT ![loc[p].chk]["tmp"] = [t \in TimeVals |-> Absent]]
    /\ Goto(p, "crc_clone")
    /\ UNCHANGED <<lockState, env, fs, faults, loc>>

\* temp_path = <checkout_path>.tmp.<time(NULL)>;
\* run_git_command("git clone --reference cache_path ... temp_path") starts
CrcClone(p) ==
    /\ alive[p] /\ pc[p] = "crc_clone"
    /\ LET c == loc[p].chk
       IN  IF sib[c]["tmp"][now].kind \in {"absent", "empty"}
           THEN /\ sib' = [sib EXCEPT ![c]["tmp"][now] = Partial]
                /\ loc' = [loc EXCEPT ![p].temp_path = now]
                /\ Goto(p, "crc_clone_end")
           ELSE /\ loc' = [loc EXCEPT ![p].temp_path = now,
                                      ![p].result = CACHE_ERROR_GIT]
                /\ Goto(p, "crc_fail_rm")
                /\ UNCHANGED sib
    /\ UNCHANGED <<lockState, env, fs, faults>>

\* int result = run_git_command(clone_cmd, parent_dir): the one run of git
\* clone --reference ends with exit_code; it needs the objects of the mirror.
\* if (result != 0) { ... CACHE_ERROR_GIT }
CrcCloneEnd(p) ==
    /\ alive[p] /\ pc[p] = "crc_clone_end"
    /\ LET c == loc[p].chk
           t == loc[p].temp_path
       IN \E exit_code \in {0, 2, 128} :
          /\ Outcome(IF exit_code = 0 THEN "ok" ELSE "fail",
                     /\ sib[c]["tmp"][t].kind = "partial"
                     /\ validate_git_repository(fs["mirror"], TRUE))
          /\ IF exit_code = 0
             THEN /\ sib' = [sib EXCEPT ![c]["tmp"][t] =
                                [Worktree(TRUE, upstream_top, FALSE, now) EXCEPT
                                    !.shape = strategy_to_string(
                                        IF c = "ro" THEN loc[p].strategy
                                        ELSE "CLONE_STRATEGY_BLOBLESS")]]
                  /\ Goto(p, "crc_validate_tmp")
                  /\ loc' = [loc EXCEPT ![p].exit_code = 0]
             ELSE /\ sib' = [sib EXCEPT ![c]["tmp"][t] =
                                IF @.kind = "partial" THEN Absent ELSE @]
                  /\ loc' = [loc EXCEPT ![p].exit_code = exit_code,
                                        ![p].result = CACHE_ERROR_GIT]
                  /\ Goto(p, "crc_fail_rm")
    /\ UNCHANGED <<lockState, env, fs>>

\* if (!directory_exists(git_subdir) && !validate_git_repository(temp_path, 0))
CrcValidateTmp(p) ==
    /\ alive[p] /\ pc[p] = "crc_validate_tmp"
    /\ LET d == sib[loc[p].chk]["tmp"][loc[p].temp_path]
       IN  IF d.kind # "wt" /\ ~validate_git_repository(d, FALSE)
           THEN /\ loc' = [loc EXCEPT ![p].result = CACHE_ERROR_GIT]
                /\ Goto(p, "crc_fail_rm")
           ELSE /\ Goto(p, "crc_mv")
                /\ UNCHANGED loc
    /\ UNCHANGED <<lockState, env, disk, faults>>

\* system("mv temp_path checkout_path")
CrcMv(p) ==
    /\ alive[p] /\ pc[p] = "crc_mv"
    /\ LET c == loc[p].chk
           t == loc[p].temp_path
       IN  IF mv_ok(sib[c]["tmp"][t])
           THEN /\ fs' = [fs EXCEPT ![c] = mv_dst(sib[c]["tmp"][t], @)]
                /\ sib' = [sib EXCEPT ![c]["tmp"][t] = mv_src(@)]
                /\ loc' = [loc EXCEPT ![p].temp_path = NULL_PATH]
                /\ Goto(p, IF loc[p].backup_path # NULL_PATH THEN "crc_rm_backup"
                           ELSE "crc_incr_load")
           ELSE /\ loc' = [loc EXCEPT ![p].result = CACHE_ERROR_FILESYSTEM]
                /\ Goto(p, "crc_fail_rm")
                /\ UNCHANGED disk
    /\ UNCHANGED <<lockState, env, faults>>

\* safe_remove_directory(backup_path) after the move succeeded
CrcRmBackup(p) ==
    /\ alive[p] /\ pc[p] = "crc_rm_backup"
    /\ sib' = [sib EXCEPT ![loc[p].chk]["backup"][loc[p].backup_path] = Absent]
    /\ loc' = [loc EXCEPT ![p].backup_path = NULL_PATH]
    /\ Goto(p, "crc_incr_load")
    /\ UNCHANGED <<lockState, env, fs, faults>>

\* cache_metadata_increment_ref(cache_path): cache_metadata_load; ref_count++
CrcIncrLoad(p) ==
    /\ alive[p] /\ pc[p] = "crc_incr_load"
    /\ IF cache_metadata_load_ok(fs["mirror"])
       THEN /\ loc' = [loc EXCEPT ![p].metadata =
                          [fs["mirror"].meta EXCEPT
                              !.strategy = string_to_strategy(@),
                              !.ref_count = @ + 1]]
            /\ Goto(p, "crc_incr_save")
            /\ UNCHANGED lockState
       ELSE /\ CallRelease(p, loc[p].chk, "crc_return")
            /\ UNCHANGED loc
    /\ UNCHANGED <<env, disk, faults>>

\* cache_metadata_increment_ref(cache_path): cache_metadata_save;
\* RETURN_WITH_LOCK_CLEANUP(checkout_path, CACHE_SUCCESS);
CrcIncrSave(p) ==
    /\ alive[p] /\ pc[p] = "crc_incr_save"
    /\ fs' = [fs EXCEPT !["mirror"] = cache_metadata_save(@, loc[p].metadata)]
    /\ loc' = [loc EXCEPT ![p].metadata = NoMeta]
    /\ CallRelease(p, loc[p].chk, "crc_return")
    /\ UNCHANGED <<env, sib, faults>>

\* after a failure: safe_remove_directory(temp_path);
CrcFailRm(p) ==
    /\ alive[p] /\ pc[p] = "crc_fail_rm"
    /\ sib' = [sib EXCEPT ![loc[p].chk]["tmp"][loc[p].temp_path] = Absent]
    /\ loc' = [loc EXCEPT ![p].temp_path = NULL_PATH]
    /\ IF loc[p].backup_path # NULL_PATH
       THEN /\ Goto(p, "crc_restore")
            /\ UNCHANGED lockState
       ELSE CallRelease(p, loc[p].chk, "crc_return")
    /\ UNCHANGED <<env, fs, faults>>

\* after a failure: restore_from_backup(backup_path, checkout_path);
\* RETURN_WITH_LOCK_CLEANUP(checkout_path, <error>);
CrcRestore(p) ==
    /\ alive[p] /\ pc[p] = "crc_restore"
    /\ LET c == loc[p].chk
           b == loc[p].backup_path
       IN  /\ fs' = [fs EXCEPT ![c] = mv_dst(sib[c]["backup"][b], @)]
           /\ sib' = [sib EXCEPT ![c]["backup"][b] = mv_src(@)]
    /\ loc' = [loc EXCEPT ![p].backup_path = NULL_PATH]
    /\ CallRelease(p, loc[p].chk, "crc_return")
    /\ UNCHANGED <<env, faults>>

\* create_reference_checkouts: if (ret != CACHE_SUCCESS) return ret; after the
\* read-only checkout comes the modifiable one; cache_clone_repository then
\* returns CACHE_SUCCESS.
CrcReturn(p) ==
    /\ alive[p] /\ pc[p] = "crc_return"
    /\ IF loc[p].result # CACHE_SUCCESS
       THEN Return(p, loc[p].result)
       ELSE IF loc[p].chk = "ro"
       THEN /\ loc' = [loc EXCEPT ![p].chk = "mod"]
            /\ Goto(p, "crc_validate")
            /\ UNCHANGED env
       ELSE Return(p, CACHE_SUCCESS)
    /\ UNCHANGED <<lockState, disk, faults>>

CrcStep(p) ==
    \/ CrcValidate(p) \/ CrcInspect(p) \/ CrcPull(p) \/ CrcAccessLoad(p)
    \/ CrcAccessSave(p) \/ CrcBackup(p) \/ CrcRm(p) \/ CrcRmEnd(p)
    \/ CrcCleanup(p) \/ CrcClone(p) \/ CrcCloneEnd(p) \/ CrcValidateTmp(p)
    \/ CrcMv(p) \/ CrcRmBackup(p) \/ CrcIncrLoad(p) \/ CrcIncrSave(p)
    \/ CrcFailRm(p) \/ CrcRestore(p) \/ CrcReturn(p)

CloneStep(p) ==
    \/ CloneMkdirCache(p) \/ CloneMkdirCheckout(p)
    \/ CcrStep(p) \/ CrcStep(p) \/ RetResult(p)

(***************************************************************************)
(* Recovery: src/cache_recovery.c.                                         *)
(***************************************************************************)

\* verify_cache_repository: the path is a repository, git fsck passes and
\* refs/heads has an entry.
verify_cache_repository(d) == d.kind = "bare" /\ d.ok

\* verify_checkout_repository: the path is a repository, git fsck passes
\* (it reads the objects of the mirror through the alternates file) and the
\* alternates file names the objects directory of the mirror.
verify_checkout_repository(d, m) ==
    d.kind = "wt" /\ d.ok /\ m.kind = "bare" /\ m.ok /\ d.alt = "own"

\* repair_cache_repository: system("mv cache_path cache_path.corrupted.<now>"),
\* whose failure only prints a warning.
RcrBackup(p) ==
    /\ alive[p] /\ pc[p] = "rcr_backup"
    /\ sib' = [sib EXCEPT !["mirror"]["corrupted"][now] = mv_dst(fs["mirror"], @)]
    /\ fs' = [fs EXCEPT !["mirror"] = IF mv_ok(@) THEN mv_src(@) ELSE @]
    /\ loc' = [loc EXCEPT ![p].backup_path = now]
    /\ Goto(p, "rcr_clone")
    /\ UNCHANGED <<lockState, env, faults>>

\* repair_cache_repository: system("git clone --bare url cache_path") starts
RcrClone(p) ==
    /\ alive[p] /\ pc[p] = "rcr_clone"
    /\ IF fs["mirror"].kind \in {"absent", "empty"}
       THEN /\ fs' = [fs EXCEPT !["mirror"] = Partial]
            /\ Goto(p, "rcr_clone_end")
       ELSE /\ Goto(p, "rcr_restore")
            /\ UNCHANGED fs
    /\ UNCHANGED <<lockState, env, sib, faults, loc>>

\* repair_cache_repository: the git clone --bare ends;
\* verify_cache_repository(cache_path) of the new clone;
\* verify_and_repair_repository: checkout_status = modifiable_status =
\* CACHE_RECOVERY_CORRUPTED
RcrCloneEnd(p) ==
    /\ alive[p] /\ pc[p] = "rcr_clone_end"
    /\ \E r \in {"ok", "fail"} :
          /\ Outcome(r, fs["mirror"].kind = "partial")
          /\ IF r = "ok"
             THEN /\ fs' = [fs EXCEPT !["mirror"] = Bare(TRUE, now)]
                  /\ loc' = [loc EXCEPT ![p].backup_path = NULL_PATH,
                                        ![p].checkout_status = "corrupted",
                                        ![p].chk = "ro"]
                  /\ Goto(p, "ver_checkout")
             ELSE /\ fs' = [fs EXCEPT !["mirror"] =
                               IF @.kind = "partial" THEN Absent ELSE @]
                  /\ Goto(p, "rcr_restore")
                  /\ UNCHANGED loc
    /\ UNCHANGED <<lockState, env, sib>>

\* A failure path that reports the failure and leaves the backup where it is.
RcrGiveUp(p) ==
    /\ alive[p] /\ pc[p] = "rcr_restore"
    /\ Return(p, CACHE_ERROR_FILESYSTEM)
    /\ UNCHANGED <<lockState, disk, faults>>

\* repair_cache_repository: system("mv backup_path cache_path");
\* return CACHE_RECOVERY_REPAIR_FAILED, which cache_verify turns into
\* CACHE_ERROR_FILESYSTEM
RcrRestore(p) ==
    /\ alive[p] /\ pc[p] = "rcr_restore"
    /\ LET b == loc[p].backup_path
       IN  /\ fs' = [fs EXCEPT !["mirror"] = mv_dst(sib["mirror"]["corrupted"][b], @)]
           /\ sib' = [sib EXCEPT !["mirror"]["corrupted"][b] =
                         IF mv_ok(@) THEN mv_src(@) ELSE @]
    /\ Return(p, CACHE_ERROR_FILESYSTEM)
    /\ UNCHANGED <<lockState, faults>>

\* repair_checkout_repository: system("rm -rf checkout_path") is running
RcoRm(p) ==
    /\ alive[p] /\ pc[p] = "rco_rm"
    /\ fs' = [fs EXCEPT ![loc[p].chk] = rm_started(@)]
    /\ Goto(p, "rco_rm_end")
    /\ UNCHANGED <<lockState, env, sib, faults, loc>>

\* repair_checkout_repository: the rm -rf has ended
RcoRmEnd(p) ==
    /\ alive[p] /\ pc[p] = "rco_rm_end"
    /\ fs' = [fs EXCEPT ![loc[p].chk] = Absent]
    /\ Goto(p, "rco_clone")
    /\ UNCHANGED <<lockState, env, sib, faults, loc>>

\* repair_checkout_repository:
\* system("git clone --reference=cache_path ... cache_path checkout_path") starts
RcoClone(p) ==
    /\ alive[p] /\ pc[p] = "rco_clone"
    /\ IF fs[loc[p].chk].kind \in {"absent", "empty"}
       THEN /\ fs' = [fs EXCEPT ![loc[p].chk] = Partial]
            /\ Goto(p, "rco_clone_end")
       ELSE /\ Goto(p, "rco_return")
            /\ UNCHANGED fs
    /\ UNCHANGED <<lockState, env, sib, faults, loc>>

\* repair_checkout_repository: the git clone ends;
\* verify_checkout_repository(checkout_path, cache_path)
RcoCloneEnd(p) ==
    /\ alive[p] /\ pc[p] = "rco_clone_end"
    /\ \E r \in {"ok", "fail"} :
          /\ Outcome(r, /\ fs[loc[p].chk].kind = "partial"
                        /\ validate_git_repository(fs["mirror"], TRUE))
          /\ fs' = [fs EXCEPT ![loc[p].chk] =
                       IF r = "ok"
                       THEN [Worktree(TRUE, upstream_top, FALSE, now) EXCEPT
                                !.shape = strategy_to_string(loc[p].strategy)]
                       ELSE IF @.kind = "partial" THEN Absent ELSE @]
    /\ Goto(p, "rco_return")
    /\ UNCHANGED <<lockState, env, sib, loc>>

\* (above) the clone gets --depth=1, --filter=tree:0, --filter=blob:none or
\* nothing, by the strategy the caller passes: repo->strategy, which is
\* CLONE_STRATEGY_FULL in verify (repo_info_create) and the strategy of the
\* metadata file in the sweep.

\* The callers of repair_checkout_repository go on whatever it returns:
\* verify_and_repair_repository with the modifiable checkout and then
\* CACHE_RECOVERY_OK, the sweep with the end of the command.
RcoReturn(p) ==
    /\ alive[p] /\ pc[p] = "rco_return"
    /\ IF cmd[p] = "verify" /\ loc[p].chk = "ro"
       THEN /\ loc' = [loc EXCEPT ![p].chk = "mod"]
            /\ Goto(p, "ver_checkout")
            /\ UNCHANGED env
       ELSE Return(p, IF loc[p].failed_count = 0 THEN CACHE_SUCCESS
                      ELSE CACHE_ERROR_NETWORK)
    /\ UNCHANGED <<lockState, disk, faults>>

\* verify_and_repair_repository: cache_status = verify_cache_repository(cache_path)
VerCache(p) ==
    /\ alive[p] /\ pc[p] = "ver_cache"
    /\ IF verify_cache_repository(fs["mirror"])
       THEN /\ loc' = [loc EXCEPT ![p].chk = "ro"]
            /\ Goto(p, "ver_checkout")
       ELSE /\ Goto(p, "rcr_backup")
            /\ UNCHANGED loc
    /\ UNCHANGED <<lockState, env, disk, faults>>

\* verify_and_repair_repository: if (access(path, F_OK) == 0) {
\*     if (checkout_status == CACHE_RECOVERY_OK)
\*         checkout_status = verify_checkout_repository(path, cache_path);
\*     if (checkout_status != CACHE_RECOVERY_OK) repair_checkout_repository(...) }
VerCheckout(p) ==
    /\ alive[p] /\ pc[p] = "ver_checkout"
    /\ LET d == fs[loc[p].chk]
       IN  IF /\ directory_exists(d)
              /\ \/ loc[p].checkout_status # "ok"
                 \/ ~verify_checkout_repository(d, fs["mirror"])
           THEN /\ Goto(p, "rco_rm")
                /\ UNCHANGED <<env, loc>>
           ELSE IF loc[p].chk = "ro"
           THEN /\ loc' = [loc EXCEPT ![p].chk = "mod"]
                /\ Goto(p, "ver_checkout")
                /\ UNCHANGED env
           ELSE Return(p, CACHE_SUCCESS)
    /\ UNCHANGED <<lockState, disk, faults>>

VerifyStep(p) ==
    \/ VerCache(p) \/ VerCheckout(p)
    \/ RcrBackup(p) \/ RcrClone(p) \/ RcrCloneEnd(p) \/ RcrRestore(p)
    \/ RcoRm(p) \/ RcoRmEnd(p) \/ RcoClone(p) \/ RcoCloneEnd(p) \/ RcoReturn(p)

(***************************************************************************)
(* The checkout repair sweep: src/checkout_repair.c.  The sweep builds the *)
(* path of the modifiable checkout as <checkout_root>/mithro/<name>, where *)
(* cache_clone_repository never puts one, so that it visits the read-only  *)
(* checkout only.                                                          *)
(***************************************************************************)

\* checkout_needs_repair(checkout_path, cache_path, last_cache_sync) > 0.
\* The three tests below come before the test for uncommitted changes; after
\* them a checkout with uncommitted changes gives 0, and a clean one gives 1
\* only when it is behind origin/HEAD, which the mirror being newer covers.
checkout_needs_repair(d, m, last_cache_sync) ==
    IF ~verify_checkout_repository(d, m) THEN TRUE
    ELSE IF m.mtime > d.mtime THEN TRUE
    ELSE IF last_cache_sync > 0 /\ d.mtime < last_cache_sync THEN TRUE
    ELSE FALSE

\* The sweep is over; cache_sync returns by failed_count, cache_repair
\* (whose failed_count is 0) returns CACHE_SUCCESS.
SweepReturnAlwaysSuccess(p) == Return(p, CACHE_SUCCESS)

SweepReturn(p) ==
    Return(p, IF loc[p].failed_count = 0 THEN CACHE_SUCCESS ELSE CACHE_ERROR_NETWORK)

\* repair_all_outdated_checkouts: cache_metadata_list_all calls the callback
\* for a mirror whose metadata file exists and loads;
\* repair_all_checkouts_for_repo: last_sync = metadata.last_sync_time
SweepList(p) ==
    /\ alive[p] /\ pc[p] = "sweep_list"
    /\ IF cache_metadata_load_ok(fs["mirror"])
       THEN /\ loc' = [loc EXCEPT ![p].last_sync = fs["mirror"].meta.last_sync_time,
                                  ![p].strategy =
                                      string_to_strategy(fs["mirror"].meta.strategy),
                                  ![p].chk = "ro"]
            /\ Goto(p, "sweep_check")
            /\ UNCHANGED env
       ELSE SweepReturn(p)
    /\ UNCHANGED <<lockState, disk, faults>>

\* repair_all_checkouts_for_repo: if (access(checkout_path, F_OK) == 0) {
\*     needs_repair = checkout_needs_repair(...);
\*     if (needs_repair > 0) repair_outdated_checkout(...) }
SweepCheck(p) ==
    /\ alive[p] /\ pc[p] = "sweep_check"
    /\ IF /\ directory_exists(fs["ro"])
          /\ checkout_needs_repair(fs["ro"], fs["mirror"], loc[p].last_sync)
       THEN /\ Goto(p, "upd_fetch")
            /\ UNCHANGED <<env, loc>>
       ELSE SweepReturn(p)
    /\ UNCHANGED <<lockState, disk, faults>>

\* update_checkout_from_cache: git fetch origin, in the checkout, whose origin
\* is the mirror; when it fails repair_outdated_checkout calls
\* repair_checkout_repository
UpdFetch(p) ==
    /\ alive[p] /\ pc[p] = "upd_fetch"
    /\ \E r \in {"ok", "fail"} :
          /\ Outcome(r, /\ fs["ro"].kind = "wt" /\ fs["ro"].ok
                        /\ validate_git_repository(fs["mirror"], TRUE))
          /\ Goto(p, IF r = "ok" THEN "upd_reset" ELSE "rco_rm")
    /\ UNCHANGED <<lockState, env, disk, loc>>

\* update_checkout_from_cache: git reset --hard origin/HEAD
UpdReset(p) ==
    /\ alive[p] /\ pc[p] = "upd_reset"
    /\ \E r \in {"ok", "fail"} :
          /\ Outcome(r, fs["ro"].kind = "wt" /\ fs["ro"].ok)
          /\ fs' = [fs EXCEPT !["ro"] =
                       IF r = "ok" THEN [@ EXCEPT !.dirty = FALSE, !.mtime = now]
                       ELSE @]
          /\ Goto(p, IF r = "ok" THEN "upd_clean" ELSE "rco_rm")
    /\ UNCHANGED <<lockState, env, sib, loc>>

\* update_checkout_from_cache: git clean -fd; return CHECKOUT_REPAIR_SUCCESS
UpdClean(p) ==
    /\ alive[p] /\ pc[p] = "upd_clean"
    /\ fs' = [fs EXCEPT !["ro"] = IF @.kind = "wt" THEN [@ EXCEPT !.dirty = FALSE] ELSE @]
    /\ SweepReturn(p)
    /\ UNCHANGED <<lockState, sib, faults>>

SweepStep(p) ==
    \/ SweepList(p) \/ SweepCheck(p) \/ UpdFetch(p) \/ UpdReset(p) \/ UpdClean(p)

(***************************************************************************)
(* cache_sync: src/git-cache.c, lines 2833-3019, for the one mirror of the *)
(* model.                                                                  *)
(***************************************************************************)

\* if (is_git_repository_at(repo_path) && validate_git_repository(repo_path, 1))
\*     lock_ret = acquire_lock(repo_path, config);
SyncScan(p) ==
    /\ alive[p] /\ pc[p] = "sync_scan"
    /\ IF is_git_repository_at(fs["mirror"]) /\ validate_git_repository(fs["mirror"], TRUE)
       THEN CallAcquire(p, "mirror", "sync_locked")
       ELSE /\ Goto(p, "sync_summary")
            /\ UNCHANGED lockState
    /\ UNCHANGED nonLock

\* if (lock_ret != CACHE_SUCCESS) continue;   (skipped: locked by another process)
SyncLocked(p) ==
    /\ alive[p] /\ pc[p] = "sync_locked"
    /\ Goto(p, IF lock_ret[p] # CACHE_SUCCESS THEN "sync_summary" ELSE "sync_fetch")
    /\ lock_ret' = [lock_ret EXCEPT ![p] = CACHE_SUCCESS]
    /\ UNCHANGED <<nonLock, lock, target, cont, attempts, holder_pid, holds>>

\* git fetch --all --prune; synced_count++ or failed_count++; release_lock(repo_path);
SyncFetch(p) ==
    /\ alive[p] /\ pc[p] = "sync_fetch"
    /\ \E r \in {"ok", "fail"}, new_refs \in BOOLEAN :
          /\ Outcome(r, validate_git_repository(fs["mirror"], TRUE))
          /\ r = "fail" => ~new_refs
          /\ fs' = [fs EXCEPT !["mirror"].mtime = IF new_refs THEN now ELSE @]
          /\ loc' = [loc EXCEPT ![p].synced_count = IF r = "ok" THEN @ + 1 ELSE @,
                                ![p].failed_count = IF r = "ok" THEN @ ELSE @ + 1]
    /\ CallRelease(p, "mirror", "sync_summary")
    /\ UNCHANGED <<env, sib>>

\* if (synced_count > 0) repair_all_outdated_checkouts(config, 0);
\* return (failed_count == 0) ? CACHE_SUCCESS : CACHE_ERROR_NETWORK;
SyncSummary(p) ==
    /\ alive[p] /\ pc[p] = "sync_summary"
    /\ IF loc[p].synced_count > 0
       THEN /\ Goto(p, "sweep_list")
            /\ UNCHANGED <<env, loc>>
       ELSE SweepReturn(p)
    /\ UNCHANGED <<lockState, disk, faults>>

SyncStep(p) == SyncScan(p) \/ SyncLocked(p) \/ SyncFetch(p) \/ SyncSummary(p)

\* The user changes a tracked file in a checkout.
UserEdit(c) ==
    /\ fs[c].kind = "wt" /\ ~fs[c].dirty
    /\ fs' = [fs EXCEPT ![c].dirty = TRUE]
    /\ UNCHANGED <<pc, lockState, env, sib, faults, loc>>

(***************************************************************************)
(* Specifications.                                                         *)
(***************************************************************************)
StartOf(c) ==
    CASE c = "clone" -> "clone_mkdir_cache"
      [] c = "sync" -> "sync_scan"
      [] c = "verify" -> "ver_cache"
      [] c = "repair" -> "sweep_list"
      [] OTHER -> "done"

InitCommon ==
    /\ now = 0
    /\ lock = [x \in Paths |-> NoLock]
    /\ target = [p \in Procs |-> "none"]
    /\ cont = [p \in Procs |-> "none"]
    /\ attempts = [p \in Procs |-> 0]
    /\ holder_pid = [p \in Procs |-> -1]
    /\ lock_ret = [p \in Procs |-> CACHE_SUCCESS]
    /\ holds = [p \in Procs |-> {}]
    /\ ret = [p \in Procs |-> CACHE_SUCCESS]
    /\ loc = [p \in Procs |-> NoLocals]
    /\ sib = [x \in Paths |-> [s \in Suffixes |-> [t \in TimeVals |-> Absent]]]
    /\ pc = [p \in Procs |-> StartOf(cmd[p])]
    /\ alive = [p \in Procs |-> cmd[p] # "none"]

\* SpecLock: every process runs sync on a cache whose mirror is valid and
\* has no metadata file (as repair_cache_repository leaves it).
InitLock ==
    /\ cmd = [p \in Procs |-> "sync"]
    /\ upstream_top = FALSE
    /\ faults = MaxFaults
    /\ fs = [x \in Paths |-> IF x = "mirror" THEN Bare(TRUE, 0) ELSE Absent]
    /\ InitCommon

NextLock ==
    \/ \E p \in Procs : LockStep(p)
    \/ \E p \in Procs : SyncStep(p)
    \/ \E p \in Procs : SweepList(p)
    \/ \E p \in Procs : Kill(p)
    \/ Tick

SpecLock == InitLock /\ [][NextLock]_vars

\* SpecClone: NumCloners processes clone the same URL into an empty cache.
NumCloners == 2

InitClone ==
    /\ cmd = [p \in Procs |-> IF p <= NumCloners THEN "clone" ELSE "none"]
    /\ upstream_top \in BOOLEAN
    /\ faults = MaxFaults
    /\ fs = [x \in Paths |-> Absent]
    /\ InitCommon

NextClone ==
    \/ \E p \in Procs : LockStep(p)
    \/ \E p \in Procs : CloneMkdirCache(p) \/ CloneMkdirCheckout(p) \/ RetResult(p)
    \/ \E p \in Procs : CcrInspect(p) \/ CcrFetch(p) \/ CcrSyncLoad(p) \/ CcrSyncSave(p)
    \/ \E p \in Procs : CcrRm(p) \/ CcrRmEnd(p) \/ CcrClone(p) \/ CcrCloneEnd(p)
    \/ \E p \in Procs : CcrValidate(p) \/ CcrMv(p) \/ CcrMeta(p) \/ CcrFailRm(p)
    \/ \E p \in Procs : CrcValidate(p) \/ CrcInspect(p) \/ CrcPull(p)
    \/ \E p \in Procs : CrcAccessLoad(p) \/ CrcAccessSave(p)
    \/ \E p \in Procs : CrcRm(p) \/ CrcRmEnd(p) \/ CrcCleanup(p)
    \/ \E p \in Procs : CrcClone(p) \/ CrcCloneEnd(p) \/ CrcValidateTmp(p) \/ CrcMv(p)
    \/ \E p \in Procs : CrcIncrLoad(p) \/ CrcIncrSave(p) \/ CrcFailRm(p) \/ CrcReturn(p)

SpecClone == InitClone /\ [][NextClone]_vars

\* SpecMaint: a populated cache (mirror with metadata, both checkouts) on
\* which NumCloners processes run sync, verify <url> or repair while the user
\* works in the checkouts.  The mirror is healthy, or corrupt.
InitMaint ==
    /\ cmd \in [Procs -> {"sync", "verify", "repair", "none"}]
    /\ \A p \in Procs : cmd[p] = "none" <=> p > NumCloners
    /\ upstream_top = FALSE
    /\ faults = MaxFaults
    /\ \E mirror_ok \in BOOLEAN :
          fs = [x \in Paths |->
                  IF x = "mirror"
                  THEN [Bare(mirror_ok, 0) EXCEPT
                           !.meta = [NoMeta EXCEPT !.present = TRUE, !.ref_count = 2]]
                  ELSE [Worktree(TRUE, FALSE, FALSE, 0) EXCEPT
                           !.shape = IF x = "mod" THEN "blobless" ELSE "full"]]
    /\ InitCommon

NextMaint ==
    \/ \E p \in Procs : LockStep(p)
    \/ \E p \in Procs : SyncStep(p)
    \/ \E p \in Procs : SweepStep(p)
    \/ \E p \in Procs : VerifyStep(p)
    \/ \E c \in Checkouts : UserEdit(c)
    \/ \E p \in Procs : Kill(p)
    \/ Tick

SpecMaint == InitMaint /\ [][NextMaint]_vars

\* SpecRecover: NumCloners processes clone the same URL into a cache whose
\* mirror and checkouts are corrupt.
InitRecover ==
    /\ cmd = [p \in Procs |-> IF p <= NumCloners THEN "clone" ELSE "none"]
    /\ upstream_top \in BOOLEAN
    /\ faults = MaxFaults
    /\ fs = [x \in Paths |->
               IF x = "mirror"
               THEN [Bare(FALSE, 0) EXCEPT
                        !.meta = [NoMeta EXCEPT !.present = TRUE, !.ref_count = 2]]
               ELSE [Worktree(FALSE, upstream_top, FALSE, 0) EXCEPT
                        !.shape = IF x = "mod" THEN "blobless" ELSE "full"]]
    /\ InitCommon

NextRecover ==
    \/ \E p \in Procs : LockStep(p)
    \/ \E p \in Procs : CloneStep(p)

SpecRecover == InitRecover /\ [][NextRecover]_vars

\* SpecWait: one sync process calls acquire_lock on the mirror, whose lock
\* file names a process that was killed while it held the lock.  The lock
\* file is LockAges seconds old when the call begins, and the clock advances
\* with the sleeps of the caller.
LockAges == {0, 120, 250, 301}

InitWait ==
    /\ pc = [p \in Procs |-> IF p = 1 THEN "sync_scan" ELSE IF p = 2 THEN "killed" ELSE "done"]
    /\ alive = [p \in Procs |-> p = 1]
    /\ cmd = [p \in Procs |-> IF p <= 2 THEN "sync" ELSE "none"]
    /\ ret = [p \in Procs |-> CACHE_SUCCESS]
    /\ now \in LockAges
    /\ lock = [x \in Paths |-> IF x = "mirror" THEN [ino |-> 2, pid |-> 2, mtime |-> 0]
                               ELSE NoLock]
    /\ target = [p \in Procs |-> "none"]
    /\ cont = [p \in Procs |-> "none"]
    /\ attempts = [p \in Procs |-> 0]
    /\ holder_pid = [p \in Procs |-> -1]
    /\ lock_ret = [p \in Procs |-> CACHE_SUCCESS]
    /\ holds = [p \in Procs |-> {}]
    /\ fs = [x \in Paths |-> IF x = "mirror" THEN Bare(TRUE, 0) ELSE Absent]
    /\ sib = [x \in Paths |-> [sfx \in Suffixes |-> [t \in TimeVals |-> Absent]]]
    /\ upstream_top = FALSE
    /\ faults = 0
    /\ loc = [p \in Procs |-> NoLocals]

NextWait ==
    \E p \in Procs :
       \/ SyncScan(p)
       \/ AcqOpen(p) \/ AcqWrite(p) \/ AcqStale(p) \/ AcqReadPid(p)
       \/ AcqProbe(p) \/ AcqUnlink(p) \/ AcqSleepTimed(p)

SpecWait == InitWait /\ [][NextWait]_vars

\* The user runs the command of p again once it has returned.
Invoke(p) ==
    /\ pc[p] = "done" /\ cmd[p] # "none"
    /\ pc' = [pc EXCEPT ![p] = StartOf(cmd[p])]
    /\ alive' = [alive EXCEPT ![p] = TRUE]
    /\ ret' = [ret EXCEPT ![p] = CACHE_SUCCESS]
    /\ loc' = [loc EXCEPT ![p] = NoLocals]
    /\ UNCHANGED <<now, upstream_top, cmd, lockState, disk, faults>>

\* SpecChurn: NumCloners processes run sync on a cache whose mirror is valid,
\* again and again; no process is killed.  Every process that can take a
\* step eventually takes one.
InitChurn ==
    /\ cmd = [p \in Procs |-> IF p <= NumCloners THEN "sync" ELSE "none"]
    /\ upstream_top = FALSE
    /\ faults = MaxFaults
    /\ fs = [x \in Paths |-> IF x = "mirror" THEN Bare(TRUE, 0) ELSE Absent]
    /\ InitCommon

ProcStep(p) == LockStep(p) \/ SyncStep(p) \/ SweepList(p)

NextChurn ==
    \/ \E p \in Procs : LockStep(p)
    \/ \E p \in Procs : SyncStep(p)
    \/ \E p \in Procs : SweepList(p)
    \/ \E p \in Procs : Invoke(p)

SpecChurn ==
    InitChurn /\ [][NextChurn]_vars /\ \A p \in Procs : WF_vars(ProcStep(p))

\* SpecStale: an earlier clone (process NumProcs) was killed while git clone
\* was writing <mirror>.tmp.0; it left that directory and its lock file.  The
\* other processes clone the same URL once the lock can be reclaimed.
InitStale ==
    /\ cmd = [p \in Procs |-> IF p <= NumCloners \/ p = NumProcs THEN "clone" ELSE "none"]
    /\ upstream_top \in BOOLEAN
    /\ faults = MaxFaults
    /\ fs = [x \in Paths |-> Absent]
    /\ now = MaxTime
    /\ lock = [x \in Paths |-> IF x = "mirror"
                               THEN [ino |-> NumProcs, pid |-> NumProcs, mtime |-> 0]
                               ELSE NoLock]
    /\ target = [p \in Procs |-> "none"]
    /\ cont = [p \in Procs |-> "none"]
    /\ attempts = [p \in Procs |-> 0]
    /\ holder_pid = [p \in Procs |-> -1]
    /\ lock_ret = [p \in Procs |-> CACHE_SUCCESS]
    /\ holds = [p \in Procs |-> {}]
    /\ ret = [p \in Procs |-> CACHE_SUCCESS]
    /\ loc = [p \in Procs |-> NoLocals]
    /\ sib = [x \in Paths |-> [s \in Suffixes |-> [t \in TimeVals |->
                IF x = "mirror" /\ s = "tmp" /\ t = 0 THEN Partial ELSE Absent]]]
    /\ pc = [p \in Procs |-> IF p = NumProcs THEN "killed" ELSE StartOf(cmd[p])]
    /\ alive = [p \in Procs |-> p <= NumCloners /\ p # NumProcs]

SpecStale == InitStale /\ [][NextClone]_vars

\* SpecRetry: process 1 is inside retry_network_operation_with_progress(cmd,
\* max_retries, ...) with max_retries drawn from 1..MaxRetriesArg; every run
\* of the command ends with any of the exit codes.  loc holds the function's
\* locals: attempt, delay, exit_code, plus the number of runs of the command,
\* the delays slept so far and the value returned.
MaxRetriesArg == 7
ExitCodes == {0, 1, 2, 128}

RetryLocals(m) == [max_retries |-> m, attempt |-> 0, delay |-> 1, exit_code |-> 0,
                   runs |-> 0, slept |-> <<>>, result |-> 0]

\* delay *= 2; if (delay > 16) delay = 16;
NextDelayNoCap(d) == d * 2
NextDelay(d) == IF d * 2 > 16 THEN 16 ELSE d * 2

\* One pass of the while body up to the sleep: system(cmd), then the tests
\* on exit_code, attempt++, and the loop test when no sleep follows.
RetryRun(p) ==
    /\ alive[p] /\ pc[p] = "retry_run"
    /\ \E exit_code \in ExitCodes :
          LET l == [loc[p] EXCEPT !.exit_code = exit_code, !.runs = @ + 1]
          IN  IF exit_code = 0
              THEN /\ loc' = [loc EXCEPT ![p] = [l EXCEPT !.result = 0]]
                   /\ pc' = [pc EXCEPT ![p] = "retry_done"]
              ELSE IF exit_code = 128 \/ exit_code = 1
              THEN /\ loc' = [loc EXCEPT ![p] = [l EXCEPT !.result = exit_code]]
                   /\ pc' = [pc EXCEPT ![p] = "retry_done"]
              ELSE IF l.attempt + 1 < l.max_retries
              THEN /\ loc' = [loc EXCEPT ![p] = [l EXCEPT !.attempt = @ + 1]]
                   /\ pc' = [pc EXCEPT ![p] = "retry_sleep"]
              ELSE /\ loc' = [loc EXCEPT ![p] =
                                 [l EXCEPT !.attempt = @ + 1, !.result = -1]]
                   /\ pc' = [pc EXCEPT ![p] = "retry_done"]
    /\ UNCHANGED <<alive, now, upstream_top, cmd, ret, lockState, disk, faults>>

\* sleep(delay); delay *= 2; if (delay > 16) delay = 16;
RetrySleep(p) ==
    /\ alive[p] /\ pc[p] = "retry_sleep"
    /\ now' = now + loc[p].delay
    /\ loc' = [loc EXCEPT ![p].slept = Append(@, loc[p].delay),
                          ![p].delay = NextDelay(@)]
    /\ pc' = [pc EXCEPT ![p] = "retry_run"]
    /\ UNCHANGED <<alive, upstream_top, cmd, ret, lockState, disk, faults>>

InitRetry ==
    /\ cmd = [p \in Procs |-> IF p = 1 THEN "clone" ELSE "none"]
    /\ upstream_top = FALSE
    /\ faults = 0
    /\ fs = [x \in Paths |-> Absent]
    /\ now = 0
    /\ lock = [x \in Paths |-> NoLock]
    /\ target = [p \in Procs |-> "none"]
    /\ cont = [p \in Procs |-> "none"]
    /\ attempts = [p \in Procs |-> 0]
    /\ holder_pid = [p \in Procs |-> -1]
    /\ lock_ret = [p \in Procs |-> CACHE_SUCCESS]
    /\ holds = [p \in Procs |-> {}]
    /\ ret = [p \in Procs |-> CACHE_SUCCESS]
    /\ sib = [x \in Paths |-> [s \in Suffixes |-> [t \in TimeVals |-> Absent]]]
    /\ \E m \in 1..MaxRetriesArg : loc = [p \in Procs |-> RetryLocals(m)]
    /\ pc = [p \in Procs |-> IF p = 1 THEN "retry_run" ELSE "done"]
    /\ alive = [p \in Procs |-> p = 1]

NextRetry == \E p \in Procs : RetryRun(p) \/ RetrySleep(p)

SpecRetry == InitRetry /\ [][NextRetry]_vars

\* cache_clone_repository: repo->strategy = options->strategy; when that is
\* CLONE_STRATEGY_AUTO, auto_detect_strategy: a failed analysis leaves the
\* fallback config->default_strategy, a recommendation with confidence >= 70
\* is taken, a lower confidence gives config->default_strategy, which the
\* configuration file can set to auto as well.
auto_detect_strategy(requested, detected, default_strategy) ==
    IF requested # "CLONE_STRATEGY_AUTO" THEN requested
    ELSE IF detected.failed THEN default_strategy
    ELSE IF detected.confidence >= 70 THEN detected.strategy
    ELSE default_strategy

\* SpecStrategy: as SpecClone, with the strategy of the command line (full,
\* shallow, treeless, blobless or auto), any outcome of the detection, any
\* default strategy, and a clock that reads a positive time.
InitStrategy ==
    /\ cmd = [p \in Procs |-> IF p <= NumCloners THEN "clone" ELSE "none"]
    /\ upstream_top \in BOOLEAN
    /\ faults = MaxFaults
    /\ fs = [x \in Paths |-> Absent]
    /\ now = TickStep
    /\ lock = [x \in Paths |-> NoLock]
    /\ target = [p \in Procs |-> "none"]
    /\ cont = [p \in Procs |-> "none"]
    /\ attempts = [p \in Procs |-> 0]
    /\ holder_pid = [p \in Procs |-> -1]
    /\ lock_ret = [p \in Procs |-> CACHE_SUCCESS]
    /\ holds = [p \in Procs |-> {}]
    /\ ret = [p \in Procs |-> CACHE_SUCCESS]
    /\ LET Fixed == {"CLONE_STRATEGY_FULL", "CLONE_STRATEGY_SHALLOW",
                     "CLONE_STRATEGY_TREELESS", "CLONE_STRATEGY_BLOBLESS"}
           Given == Fixed \cup {"CLONE_STRATEGY_AUTO"}
       IN  \E requested \in Given, default_strategy \in Given,
              detected \in [failed : BOOLEAN, confidence : {65, 70},
                            strategy : Fixed] :
              loc = [p \in Procs |->
                       [NoLocals EXCEPT !.strategy =
                           auto_detect_strategy(requested, detected,
                                                default_strategy)]]
    /\ sib = [x \in Paths |-> [s \in Suffixes |-> [t \in TimeVals |-> Absent]]]
    /\ pc = [p \in Procs |-> StartOf(cmd[p])]
    /\ alive = [p \in Procs |-> cmd[p] # "none"]

SpecStrategy == InitStrategy /\ [][NextClone]_vars

\* SpecAlt: NumCloners processes clone a URL whose cache is populated: the
\* mirror and the checkouts are valid or corrupt, and the alternates file of
\* the checkouts names the objects of this mirror or of another directory.
InitAlt ==
    /\ cmd = [p \in Procs |-> IF p <= NumCloners THEN "clone" ELSE "none"]
    /\ upstream_top \in BOOLEAN
    /\ faults = MaxFaults
    /\ \E mirror_ok, checkout_ok \in BOOLEAN, alt \in {"own", "other"} :
          fs = [x \in Paths |->
                  IF x = "mirror"
                  THEN [Bare(mirror_ok, 0) EXCEPT
                           !.meta = [NoMeta EXCEPT !.present = TRUE, !.ref_count = 2]]
                  ELSE [Worktree(checkout_ok, upstream_top, FALSE, 0) EXCEPT
                           !.alt = alt,
                           !.shape = IF x = "mod" THEN "blobless" ELSE "full"]]
    /\ InitCommon

SpecAlt == InitAlt /\ [][NextRecover]_vars

(***************************************************************************)
(* SpecMeta: one caller of the metadata interface of src/cache_metadata.c  *)
(* on one cache directory.  In this specification fs["mirror"].meta is     *)
(* the whole JSON document of cache_metadata.json:                         *)
(*   present     the file exists                                           *)
(*   wellformed  json_object_from_file can parse it                        *)
(*   keys        the members the document has                              *)
(*   and one field for the value of each member (strings for the enums,    *)
(*   booleans for the flags).                                              *)
(* A struct cache_metadata has the enum values, integers for the flags     *)
(* and NULL_STR for a NULL string.  The caller's locals:                   *)
(*   repo      the strategy and type of the struct repo_info               *)
(*   metadata  the struct the caller holds (made by create, or its own)    *)
(*   last      the last call made, result the value it returned            *)
(*   loaded    the struct filled in by the load that was the last call     *)
(*   fresh     the last call but one was save, and the last was load       *)
(*   start     the record in the file before the increment_ref that was    *)
(*             the last call, or the last but one before a decrement_ref   *)
(*   paired    start is such a record                                      *)
(***************************************************************************)
MaxRefs == 2
METADATA_SUCCESS == 0
METADATA_ERROR_NOT_FOUND == -1
METADATA_ERROR_CORRUPT == -5
NULL_STR == "NULL"

StringKeys == {"original_url", "owner", "name"}
ValueKeys == {"type", "strategy", "created_time", "last_sync_time",
              "last_access_time", "cache_size", "ref_count", "is_fork_needed",
              "is_private_fork", "has_submodules"}

\* memset(metadata, 0, sizeof(*metadata)) / calloc: every enum has its first
\* value (REPO_TYPE_GITHUB, CLONE_STRATEGY_FULL).
ZeroMetadata ==
    [original_url |-> NULL_STR, owner |-> NULL_STR, name |-> NULL_STR,
     type |-> "REPO_TYPE_GITHUB", strategy |-> "CLONE_STRATEGY_FULL",
     created_time |-> 0, last_sync_time |-> 0, last_access_time |-> 0,
     cache_size |-> 0, ref_count |-> 0,
     is_fork_needed |-> 0, is_private_fork |-> 0, has_submodules |-> 0]

\* No cache_metadata.json in the directory.
NoFile ==
    [present |-> FALSE, wellformed |-> FALSE, keys |-> {},
     original_url |-> "", owner |-> "", name |-> "",
     type |-> "", strategy |-> "",
     created_time |-> 0, last_sync_time |-> 0, last_access_time |-> 0,
     cache_size |-> 0, ref_count |-> 0,
     is_fork_needed |-> FALSE, is_private_fork |-> FALSE,
     has_submodules |-> FALSE]

repo_type_to_string(type) ==
    CASE type = "REPO_TYPE_GITHUB" -> "github"
      [] type = "REPO_TYPE_UNKNOWN" -> "unknown"
      [] OTHER -> "unknown"

string_to_repo_type(str) ==
    IF str = "github" THEN "REPO_TYPE_GITHUB" ELSE "REPO_TYPE_UNKNOWN"

\* cache_metadata_create(repo): the strings and the simple fields of repo,
\* created_time = time(NULL), last_access_time = created_time, ref_count = 0.
cache_metadata_create(repo, t) ==
    [ZeroMetadata EXCEPT !.original_url = repo.original_url,
                         !.owner = repo.owner, !.name = repo.name,
                         !.type = repo.type, !.strategy = repo.strategy,
                         !.created_time = t, !.last_access_time = t]

\* The document cache_metadata_save writes: a string member for each
\* non-NULL string, the names of the enums, the integers, the flags as
\* JSON booleans.
cache_metadata_json(m) ==
    [present |-> TRUE, wellformed |-> TRUE,
     keys |-> {k \in StringKeys : m[k] # NULL_STR} \cup ValueKeys,
     original_url |-> IF m.original_url # NULL_STR THEN m.original_url ELSE "",
     owner |-> IF m.owner # NULL_STR THEN m.owner ELSE "",
     name |-> IF m.name # NULL_STR THEN m.name ELSE "",
     type |-> repo_type_to_string(m.type),
     strategy |-> strategy_to_string(m.strategy),
     created_time |-> m.created_time, last_sync_time |-> m.last_sync_time,
     last_access_time |-> m.last_access_time, cache_size |-> m.cache_size,
     ref_count |-> m.ref_count,
     is_fork_needed |-> m.is_fork_needed # 0,
     is_private_fork |-> m.is_private_fork # 0,
     has_submodules |-> m.has_submodules # 0]

\* cache_metadata_load: access() fails -> NOT_FOUND; json_object_from_file
\* fails -> CORRUPT; else memset 0 and one assignment per member present.
cache_metadata_load(d) ==
    IF ~d.present
    THEN [ret |-> METADATA_ERROR_NOT_FOUND, metadata |-> ZeroMetadata]
    ELSE IF ~d.wellformed
    THEN [ret |-> METADATA_ERROR_CORRUPT, metadata |-> ZeroMetadata]
    ELSE LET Has(k) == k \in d.keys
             Z == ZeroMetadata
         IN  [ret |-> METADATA_SUCCESS,
              metadata |->
                [original_url |-> IF Has("original_url") THEN d.original_url
                                  ELSE Z.original_url,
                 owner |-> IF Has("owner") THEN d.owner ELSE Z.owner,
                 name |-> IF Has("name") THEN d.name ELSE Z.name,
                 type |-> IF Has("type") THEN string_to_repo_type(d.type)
                          ELSE Z.type,
                 strategy |-> IF Has("strategy")
                              THEN string_to_strategy(d.strategy)
                              ELSE Z.strategy,
                 created_time |-> IF Has("created_time") THEN d.created_time
                                  ELSE Z.created_time,
                 last_sync_time |-> IF Has("last_sync_time")
                                    THEN d.last_sync_time
                                    ELSE Z.last_sync_time,
                 last_access_time |-> IF Has("last_access_time")
                                      THEN d.last_access_time
                                      ELSE Z.last_access_time,
                 cache_size |-> IF Has("cache_size") THEN d.cache_size
                                ELSE Z.cache_size,
                 ref_count |-> IF Has("ref_count") THEN d.ref_count
                               ELSE Z.ref_count,
                 is_fork_needed |-> IF Has("is_fork_needed") /\ d.is_fork_needed
                                    THEN 1 ELSE 0,
                 is_private_fork |-> IF Has("is_private_fork")
                                        /\ d.is_private_fork
                                     THEN 1 ELSE 0,
                 has_submodules |-> IF Has("has_submodules") /\ d.has_submodules
                                    THEN 1 ELSE 0]]

MetaLocals(repo, m) ==
    [repo |-> repo, metadata |-> m, last |-> "none",
     result |-> METADATA_SUCCESS, loaded |-> ZeroMetadata, fresh |-> FALSE,
     start |-> ZeroMetadata, paired |-> FALSE]

\* The call op is made and returns r.
Called(p, op, r) ==
    [loc[p] EXCEPT !.last = op, !.result = r, !.loaded = ZeroMetadata,
                   !.fresh = FALSE, !.start = ZeroMetadata, !.paired = FALSE]

\* What every call of the interface leaves alone.
MetaFrame == UNCHANGED <<pc, alive, now, upstream_top, cmd, ret, lockState,
                         sib, faults>>

\* load, change one field, save: the body shared by update_sync,
\* update_access, increment_ref and decrement_ref.
MetaRewrite(p, op, Change(_)) ==
    LET r == cache_metadata_load(fs["mirror"].meta)
    IN  /\ alive[p] /\ pc[p] = "meta_call"
        /\ IF r.ret # METADATA_SUCCESS
           THEN /\ loc' = [loc EXCEPT ![p] = Called(p, op, r.ret)]
                /\ UNCHANGED fs
           ELSE /\ fs' = [fs EXCEPT !["mirror"].meta =
                             cache_metadata_json(Change(r.metadata))]
                /\ loc' = [loc EXCEPT ![p] =
                             IF op = "increment_ref"
                             THEN [Called(p, op, METADATA_SUCCESS) EXCEPT
                                      !.start = r.metadata, !.paired = TRUE]
                             ELSE IF op = "decrement_ref"
                                     /\ loc[p].last = "increment_ref"
                             THEN [Called(p, op, METADATA_SUCCESS) EXCEPT
                                      !.start = loc[p].start,
                                      !.paired = loc[p].paired]
                             ELSE Called(p, op, METADATA_SUCCESS)]
        /\ MetaFrame

\* metadata = cache_metadata_create(repo)
MetaCreate(p) ==
    /\ alive[p] /\ pc[p] = "meta_call"
    /\ loc' = [loc EXCEPT ![p] =
                 [Called(p, "create", METADATA_SUCCESS) EXCEPT
                     !.metadata = cache_metadata_create(loc[p].repo, now)]]
    /\ UNCHANGED fs
    /\ MetaFrame

\* cache_metadata_save(cache_path, metadata)
MetaSave(p) ==
    /\ alive[p] /\ pc[p] = "meta_call"
    /\ fs' = [fs EXCEPT !["mirror"].meta = cache_metadata_json(loc[p].metadata)]
    /\ loc' = [loc EXCEPT ![p] = Called(p, "save", METADATA_SUCCESS)]
    /\ MetaFrame

\* cache_metadata_load(cache_path, &loaded)
MetaLoad(p) ==
    LET r == cache_metadata_load(fs["mirror"].meta)
    IN  /\ alive[p] /\ pc[p] = "meta_call"
        /\ loc' = [loc EXCEPT ![p] =
                      [Called(p, "load", r.ret) EXCEPT
                          !.loaded = IF r.ret = METADATA_SUCCESS
                                     THEN r.metadata ELSE @,
                          !.fresh = (loc[p].last = "save")]]
        /\ UNCHANGED fs
        /\ MetaFrame

\* cache_metadata_update_sync: last_sync_time = time(NULL)
MetaUpdateSync(p) ==
    LET Change(m) == [m EXCEPT !.last_sync_time = now]
    IN  MetaRewrite(p, "update_sync", Change)

\* cache_metadata_update_access: last_access_time = time(NULL)
MetaUpdateAccess(p) ==
    LET Change(m) == [m EXCEPT !.last_access_time = now]
    IN  MetaRewrite(p, "update_access", Change)

\* cache_metadata_increment_ref: ref_count++; last_access_time = time(NULL)
MetaIncrementRef(p) ==
    LET Change(m) == [m EXCEPT !.ref_count = @ + 1, !.last_access_time = now]
    IN  /\ fs["mirror"].meta.ref_count < MaxRefs
        /\ MetaRewrite(p, "increment_ref", Change)

\* A decrement that leaves the record as it is.
decrement_ref_none(m) == m

\* A decrement without the test on ref_count.
decrement_ref_unguarded(m) == [m EXCEPT !.ref_count = @ - 1]

\* cache_metadata_decrement_ref: if (ref_count > 0) ref_count--;
decrement_ref(m) == [m EXCEPT !.ref_count = IF @ > 0 THEN @ - 1 ELSE @]

MetaDecrementRef(p) ==
    LET Change(m) == decrement_ref(m)
    IN  MetaRewrite(p, "decrement_ref", Change)

\* The files found at the start: none, an unparsable one, documents that
\* lack members (written by hand or by another version), and the document of
\* an earlier save.  The caller's own struct is the zero struct or a filled
\* one whose times are not in the future.
SampleMetadata ==
    [original_url |-> "https://github.com/test/repo.git", owner |-> "test",
     name |-> "repo", type |-> "REPO_TYPE_UNKNOWN",
     strategy |-> "CLONE_STRATEGY_BLOBLESS",
     created_time |-> 0, last_sync_time |-> TickStep,
     last_access_time |-> TickStep, cache_size |-> 12345, ref_count |-> 2,
     is_fork_needed |-> 1, is_private_fork |-> 0, has_submodules |-> 1]

InitFiles ==
    {NoFile,
     [NoFile EXCEPT !.present = TRUE],
     [NoFile EXCEPT !.present = TRUE, !.wellformed = TRUE],
     [cache_metadata_json(SampleMetadata) EXCEPT
         !.keys = {"original_url", "owner", "name", "ref_count"}],
     cache_metadata_json(SampleMetadata)}

InitRepos ==
    [original_url : {"https://github.com/test/repo.git"}, owner : {"test"},
     name : {"repo"},
     type : {"REPO_TYPE_GITHUB", "REPO_TYPE_UNKNOWN"},
     strategy : {"CLONE_STRATEGY_FULL", "CLONE_STRATEGY_TREELESS",
                 "CLONE_STRATEGY_AUTO"}]

InitMeta ==
    /\ cmd = [p \in Procs |-> IF p = 1 THEN "meta" ELSE "none"]
    /\ upstream_top = FALSE
    /\ faults = 0
    /\ \E file \in InitFiles :
          fs = [x \in Paths |-> IF x = "mirror"
                                THEN [Bare(TRUE, 0) EXCEPT !.meta = file]
                                ELSE Absent]
    /\ now = TickStep
    /\ lock = [x \in Paths |-> NoLock]
    /\ target = [p \in Procs |-> "none"]
    /\ cont = [p \in Procs |-> "none"]
    /\ attempts = [p \in Procs |-> 0]
    /\ holder_pid = [p \in Procs |-> -1]
    /\ lock_ret = [p \in Procs |-> CACHE_SUCCESS]
    /\ holds = [p \in Procs |-> {}]
    /\ ret = [p \in Procs |-> CACHE_SUCCESS]
    /\ sib = [x \in Paths |-> [s \in Suffixes |-> [t \in TimeVals |-> Absent]]]
    /\ \E repo \in InitRepos, m \in {ZeroMetadata, SampleMetadata} :
          loc = [p \in Procs |-> MetaLocals(repo, m)]
    /\ pc = [p \in Procs |-> IF p = 1 THEN "meta_call" ELSE "done"]
    /\ alive = [p \in Procs |-> p = 1]

NextMeta ==
    \/ Tick
    \/ \E p \in Procs :
          \/ MetaCreate(p)
          \/ MetaSave(p)
          \/ MetaLoad(p)
          \/ MetaUpdateSync(p)
          \/ MetaUpdateAccess(p)
          \/ MetaIncrementRef(p)
          \/ MetaDecrementRef(p)

SpecMeta == InitMeta /\ [][NextMeta]_vars

(***************************************************************************)
(* SpecUrl: repo_info_parse_url (src/git-cache.c) and                      *)
(* github_parse_repo_url (src/github_api.c) on one URL.                    *)
(* A URL is the sequence of its pieces: each of the characters ':', '/'    *)
(* and '@' is a piece of its own, and so is each run of other characters,  *)
(* except that a run that begins with github.com or ends with .git has     *)
(* that part as a piece of its own (github.com.evil.com is the two pieces  *)
(* github.com and .evil.com, repo.git is repo and .git).  With these       *)
(* pieces strncmp against the literals of the parser is a comparison of    *)
(* leading pieces, strchr is the position of a piece, and a length of 0    *)
(* is an empty sequence.  The caller's locals:                             *)
(*   parts   what the URL was written from (scheme, user, host, port, the  *)
(*           character after the host, owner, name, .git, trailing slash)  *)
(*   url     the URL                                                       *)
(*   type, owner, name   the fields of struct repo_info after the call     *)
(***************************************************************************)
GITHUB_SUCCESS == 0
GITHUB_ERROR_INVALID == -7
CACHE_ERROR_ARGS == -1

\* strncmp(s, pre, strlen(pre)) == 0
StartsWith(s, pre) ==
    Len(s) >= Len(pre) /\ SubSeq(s, 1, Len(pre)) = pre

\* s + n
Skip(s, n) == SubSeq(s, n + 1, Len(s))

\* strchr(s, c): the position of the first c, 0 for NULL
strchr(s, c) ==
    IF \E i \in 1..Len(s) : s[i] = c
    THEN CHOOSE i \in 1..Len(s) : s[i] = c /\ \A j \in 1..(i - 1) : s[j] # c
    ELSE 0

\* while (repo_end > repo_start && *(repo_end - 1) == '/') repo_end--;
RECURSIVE StripSlashes(_)
StripSlashes(s) ==
    IF Len(s) > 0 /\ s[Len(s)] = "/"
    THEN StripSlashes(SubSeq(s, 1, Len(s) - 1))
    ELSE s

SchemePrefix(w) == <<w, ":", "/", "/">>

\* start = at_sign + 1 when there is an '@' before the first '/'
SkipUser(s) ==
    LET at_sign == strchr(s, "@")
        slash == strchr(s, "/")
    IN  IF at_sign # 0 /\ slash # 0 /\ at_sign < slash THEN Skip(s, at_sign)
        ELSE s

\* The piece of github_parse_repo_url from the label parse_owner_repo on.
parse_owner_repo(start) ==
    LET slash == strchr(start, "/")
        Invalid == [ret |-> GITHUB_ERROR_INVALID, owner |-> <<>>, repo |-> <<>>]
    IN  IF slash = 0 THEN Invalid
        ELSE IF slash - 1 = 0 THEN Invalid
        ELSE LET repo_start == Skip(start, slash)
                 r1 == StripSlashes(repo_start)
                 r2 == IF Len(r1) > 1 /\ r1[Len(r1)] = ".git"
                       THEN SubSeq(r1, 1, Len(r1) - 1)
                       ELSE r1
                 r3 == StripSlashes(r2)
             IN  IF Len(r3) = 0 THEN Invalid
                 ELSE [ret |-> GITHUB_SUCCESS,
                       owner |-> SubSeq(start, 1, slash - 1), repo |-> r3]

\* What follows git@ up to and including the first ':' is skipped unread.
AfterGitAt(url) == Skip(url, strchr(url, ":"))

github_parse_repo_url(url) ==
    LET Invalid == [ret |-> GITHUB_ERROR_INVALID, owner |-> <<>>, repo |-> <<>>]
        Host(start) ==
            IF StartsWith(start, <<"github.com", "/">>)
            THEN parse_owner_repo(Skip(start, 2))
            ELSE IF StartsWith(start, <<"github.com", ":">>)
            THEN parse_owner_repo(Skip(start, 2))
            ELSE IF StartsWith(start, <<"github.com">>)
            THEN LET s1 == Skip(start, 1)
                     s2 == IF StartsWith(s1, <<"/">>) THEN Skip(s1, 1) ELSE s1
                     s3 == IF StartsWith(s2, <<":">>) THEN Skip(s2, 1) ELSE s2
                 IN  parse_owner_repo(s3)
            ELSE Invalid
    IN  IF StartsWith(url, SchemePrefix("https")) THEN Host(Skip(url, 4))
        ELSE IF StartsWith(url, SchemePrefix("http")) THEN Host(Skip(url, 4))
        ELSE IF StartsWith(url, SchemePrefix("git")) THEN Host(Skip(url, 4))
        ELSE IF StartsWith(url, SchemePrefix("git+https")) THEN Host(Skip(url, 4))
        ELSE IF StartsWith(url, SchemePrefix("git+http")) THEN Host(Skip(url, 4))
        ELSE IF StartsWith(url, SchemePrefix("git+ssh"))
        THEN Host(SkipUser(Skip(url, 4)))
        ELSE IF StartsWith(url, SchemePrefix("ssh"))
        THEN Host(SkipUser(Skip(url, 4)))
        ELSE IF StartsWith(url, <<"git", "@">>)
        THEN IF strchr(url, ":") = 0 THEN Invalid
             ELSE parse_owner_repo(AfterGitAt(url))
        ELSE IF StartsWith(url, SchemePrefix("file")) THEN Invalid
        ELSE Host(url)

\* The URLs tried: every combination of the parts below.
SupportedHosts == {<<"github.com">>}
UrlParts ==
    [scheme : {"none", "https", "http", "git", "git+https", "git+http",
               "git+ssh", "ssh", "file", "ftp"},
     user : {"none", "git", "user"},
     host : SupportedHosts \cup {<<"gitlab.com">>, <<"github.com", ".evil.com">>},
     port : {"none", "22"},
     sep : {"/", ":"},
     owner : {"", "owner", "OwNeR"},
     name : {"", "repo", "RePo"},
     dotgit : BOOLEAN,
     slash : BOOLEAN]

Piece(w) == IF w = "" \/ w = "none" THEN <<>> ELSE <<w>>

UrlOf(u) ==
    (IF u.scheme = "none" THEN <<>> ELSE SchemePrefix(u.scheme))
    \o (IF u.user = "none" THEN <<>> ELSE <<u.user, "@">>)
    \o u.host
    \o (IF u.port = "none" THEN <<>> ELSE <<":", u.port>>)
    \o <<u.sep>> \o Piece(u.owner) \o <<"/">> \o Piece(u.name)
    \o (IF u.dotgit THEN <<".git">> ELSE <<>>)
    \o (IF u.slash THEN <<"/">> ELSE <<>>)

UrlLocals(u) ==
    [parts |-> u, url |-> UrlOf(u), type |-> "REPO_TYPE_UNKNOWN",
     owner |-> <<>>, name |-> <<>>]

\* repo_info_parse_url(url, repo)
ParseUrl(p) ==
    /\ alive[p] /\ pc[p] = "parse_url"
    /\ LET r == github_parse_repo_url(loc[p].url)
       IN  IF r.ret = GITHUB_SUCCESS
           THEN /\ loc' = [loc EXCEPT ![p].type = "REPO_TYPE_GITHUB",
                                      ![p].owner = r.owner,
                                      ![p].name = r.repo]
                /\ ret' = [ret EXCEPT ![p] = CACHE_SUCCESS]
           ELSE /\ loc' = [loc EXCEPT ![p].type = "REPO_TYPE_UNKNOWN"]
                /\ ret' = [ret EXCEPT ![p] = CACHE_ERROR_ARGS]
    /\ pc' = [pc EXCEPT ![p] = "done"]
    /\ UNCHANGED <<alive, now, upstream_top, cmd, lockState, disk, faults>>

InitUrl ==
    /\ cmd = [p \in Procs |-> IF p = 1 THEN "parse" ELSE "none"]
    /\ upstream_top = FALSE
    /\ faults = 0
    /\ fs = [x \in Paths |-> Absent]
    /\ now = 0
    /\ lock = [x \in Paths |-> NoLock]
    /\ target = [p \in Procs |-> "none"]
    /\ cont = [p \in Procs |-> "none"]
    /\ attempts = [p \in Procs |-> 0]
    /\ holder_pid = [p \in Procs |-> -1]
    /\ lock_ret = [p \in Procs |-> CACHE_SUCCESS]
    /\ holds = [p \in Procs |-> {}]
    /\ ret = [p \in Procs |-> CACHE_SUCCESS]
    /\ sib = [x \in Paths |-> [s \in Suffixes |-> [t \in TimeVals |-> Absent]]]
    /\ \E u \in UrlParts : loc = [p \in Procs |-> UrlLocals(u)]
    /\ pc = [p \in Procs |-> IF p = 1 THEN "parse_url" ELSE "done"]
    /\ alive = [p \in Procs |-> p = 1]

NextUrl == \E p \in Procs : ParseUrl(p)

SpecUrl == InitUrl /\ [][NextUrl]_vars

(***************************************************************************)
(* SpecDetect: get_optimal_strategy (src/strategy_detection.c) on one      *)
(* repository analysis and one detector configuration.  The caller's       *)
(* locals:                                                                 *)
(*   analysis        estimated_size (bytes), commit_count, activity_level, *)
(*                   has_large_files, is_monorepo                          *)
(*   config          prefer_speed, size_threshold_mb, depth_threshold      *)
(*   recommendation  strategy, confidence, fallback after the call         *)
(***************************************************************************)
SMALL_REPO_THRESHOLD_MB == 10
MEDIUM_REPO_THRESHOLD_MB == 100
LARGE_REPO_THRESHOLD_MB == 500
LOW_ACTIVITY_THRESHOLD == 5
HIGH_ACTIVITY_THRESHOLD == 50
MegaByte == 1024 * 1024

Recommend(strategy, confidence, fallback) ==
    [strategy |-> strategy, confidence |-> confidence, fallback |-> fallback]

\* memset(recommendation, 0, ...); recommendation->fallback = FULL
NoRecommendation == Recommend("CLONE_STRATEGY_FULL", 0, "CLONE_STRATEGY_FULL")

get_optimal_strategy(analysis, config) ==
    LET size_mb == analysis.estimated_size \div MegaByte
    IN  IF size_mb < SMALL_REPO_THRESHOLD_MB /\ analysis.commit_count < 100
        THEN Recommend("CLONE_STRATEGY_FULL", 95, "CLONE_STRATEGY_SHALLOW")
        ELSE IF size_mb > config.size_threshold_mb
                \/ analysis.commit_count > config.depth_threshold
        THEN IF config.prefer_speed
             THEN IF analysis.has_large_files \/ analysis.is_monorepo
                  THEN Recommend("CLONE_STRATEGY_BLOBLESS", 85,
                                 "CLONE_STRATEGY_TREELESS")
                  ELSE IF size_mb > LARGE_REPO_THRESHOLD_MB
                  THEN Recommend("CLONE_STRATEGY_TREELESS", 80,
                                 "CLONE_STRATEGY_BLOBLESS")
                  ELSE Recommend("CLONE_STRATEGY_SHALLOW", 75,
                                 "CLONE_STRATEGY_TREELESS")
             ELSE Recommend("CLONE_STRATEGY_FULL", 70, "CLONE_STRATEGY_TREELESS")
        ELSE IF analysis.activity_level > HIGH_ACTIVITY_THRESHOLD
                /\ config.prefer_speed
        THEN Recommend("CLONE_STRATEGY_SHALLOW", 70, "CLONE_STRATEGY_FULL")
        ELSE IF analysis.is_monorepo
        THEN Recommend("CLONE_STRATEGY_BLOBLESS", 90, "CLONE_STRATEGY_TREELESS")
        ELSE IF analysis.activity_level < LOW_ACTIVITY_THRESHOLD
        THEN Recommend("CLONE_STRATEGY_FULL", 80, "CLONE_STRATEGY_SHALLOW")
        ELSE IF size_mb > MEDIUM_REPO_THRESHOLD_MB \div 2
        THEN Recommend("CLONE_STRATEGY_TREELESS", 60, "CLONE_STRATEGY_SHALLOW")
        ELSE Recommend("CLONE_STRATEGY_FULL", 65, "CLONE_STRATEGY_SHALLOW")

\* The analyses and configurations tried: sizes and counts on both sides of
\* every threshold the function compares with.
Analyses ==
    [estimated_size : {MegaByte, 10 * MegaByte - 1, 10 * MegaByte,
                       51 * MegaByte, 101 * MegaByte, 600 * MegaByte},
     commit_count : {50, 100, 101, 2000},
     activity_level : {0, 5, 51},
     has_large_files : BOOLEAN,
     is_monorepo : BOOLEAN]
StrategyConfigs ==
    [prefer_speed : BOOLEAN,
     size_threshold_mb : {20, MEDIUM_REPO_THRESHOLD_MB, 1000},
     depth_threshold : {100, 5000}]

DetectLocals(a, c) ==
    [analysis |-> a, config |-> c, recommendation |-> NoRecommendation]

\* get_optimal_strategy(&analysis, &strategy_config, &recommendation)
Detect(p) ==
    /\ alive[p] /\ pc[p] = "detect"
    /\ loc' = [loc EXCEPT ![p].recommendation =
                  get_optimal_strategy(loc[p].analysis, loc[p].config)]
    /\ pc' = [pc EXCEPT ![p] = "done"]
    /\ UNCHANGED <<alive, now, upstream_top, cmd, ret, lockState, disk, faults>>

InitDetect ==
    /\ cmd = [p \in Procs |-> IF p = 1 THEN "detect" ELSE "none"]
    /\ upstream_top = FALSE
    /\ faults = 0
    /\ fs = [x \in Paths |-> Absent]
    /\ now = 0
    /\ lock = [x \in Paths |-> NoLock]
    /\ target = [p \in Procs |-> "none"]
    /\ cont = [p \in Procs |-> "none"]
    /\ attempts = [p \in Procs |-> 0]
    /\ holder_pid = [p \in Procs |-> -1]
    /\ lock_ret = [p \in Procs |-> CACHE_SUCCESS]
    /\ holds = [p \in Procs |-> {}]
    /\ ret = [p \in Procs |-> CACHE_SUCCESS]
    /\ sib = [x \in Paths |-> [s \in Suffixes |-> [t \in TimeVals |-> Absent]]]
    /\ \E a \in Analyses, c \in StrategyConfigs :
          loc = [p \in Procs |-> DetectLocals(a, c)]
    /\ pc = [p \in Procs |-> IF p = 1 THEN "detect" ELSE "done"]
    /\ alive = [p \in Procs |-> p = 1]

NextDetect == \E p \in Procs : Detect(p)

SpecDetect == InitDetect /\ [][NextDetect]_vars

(***************************************************************************)
(* SpecSubmodule: the last step of cache_clone_repository, taken when the  *)
(* mirror and both checkouts have succeeded and recursive_submodules is    *)
(* set: process_submodules (src/submodule.c).                              *)
(* The .gitmodules file is a sequence of lines; a line is a section header *)
(* (sub: it begins with [submodule ", name: the text up to the last "),    *)
(* a key line (key = value, after leading blanks), or a line to skip       *)
(* (empty or a comment).  The caller's locals:                             *)
(*   blocks     what the file was written from                             *)
(*   file       the file: "missing", "unreadable", or its lines            *)
(*   list       the struct submodule_list, parse_ret what the parser       *)
(*              returned                                                   *)
(*   i          the index of the loop of process_submodules                *)
(*   sub_ret    ret of process_submodules                                  *)
(*   cached, inited   the names for which cache_submodule and              *)
(*              init_submodule_checkout were called, in order              *)
(*   failed     the indexes of the submodules for which one of them failed *)
(***************************************************************************)
MaxSections == 3

EmptyInfo == [name |-> "", path |-> "", url |-> "", branch |-> ""]

SectionLine(sub, name) == [kind |-> "section", sub |-> sub, name |-> name,
                           key |-> "", value |-> ""]
KeyLine(key, value) == [kind |-> "key", sub |-> FALSE, name |-> "",
                        key |-> key, value |-> value]
SkipLine == [kind |-> "skip", sub |-> FALSE, name |-> "", key |-> "",
             value |-> ""]

\* if (in_submodule && name[0] && path[0] && url[0]) add current_info
SaveIfComplete(in_submodule, current_info, list) ==
    IF in_submodule /\ current_info.name # "" /\ current_info.path # ""
          /\ current_info.url # ""
    THEN Append(list, current_info)
    ELSE list

\* A parser that does nothing after the last line.
SaveLastNever(in_submodule, current_info, list) == list

\* Save last submodule if complete
SaveLast(in_submodule, current_info, list) ==
    SaveIfComplete(in_submodule, current_info, list)

\* parse_gitmodules_internal: the while loop from line k on.
RECURSIVE ParseLines(_, _, _, _, _)
ParseLines(lines, k, current_info, in_submodule, list) ==
    IF k > Len(lines) THEN SaveLast(in_submodule, current_info, list)
    ELSE LET line == lines[k]
         IN  IF line.kind = "skip"
             THEN ParseLines(lines, k + 1, current_info, in_submodule, list)
             ELSE IF line.kind = "section"
             THEN LET named == line.sub /\ line.name # ""
                  IN  ParseLines(lines, k + 1,
                                 IF named
                                 THEN [EmptyInfo EXCEPT !.name = line.name]
                                 ELSE EmptyInfo,
                                 named,
                                 SaveIfComplete(in_submodule, current_info, list))
             ELSE IF in_submodule /\ line.key \in {"path", "url", "branch"}
             THEN ParseLines(lines, k + 1,
                             [current_info EXCEPT ![line.key] = line.value],
                             in_submodule, list)
             ELSE ParseLines(lines, k + 1, current_info, in_submodule, list)

\* parse_gitmodules: no file is an empty list and 0, a file that cannot be
\* opened is -1.
parse_gitmodules(file) ==
    IF file = <<"missing">> THEN [ret |-> 0, list |-> <<>>]
    ELSE IF file = <<"unreadable">> THEN [ret |-> -1, list |-> <<>>]
    ELSE [ret |-> 0, list |-> ParseLines(file, 1, EmptyInfo, FALSE, <<>>)]

\* The files tried: up to MaxSections sections, each with a header that is
\* a named submodule, a submodule with an empty name or another section,
\* with or without a path line, and with a url line, a url line that has
\* no value, or none.
Blocks ==
    [header : {"s1", "s2", "", "core"}, path : {"none", "p"},
     url : {"none", "", "u"}]
BlockLines(b) ==
    <<SectionLine(b.header # "core", IF b.header = "core" THEN "" ELSE b.header)>>
    \o (IF b.path = "none" THEN <<>> ELSE <<KeyLine("path", b.path)>>)
    \o <<SkipLine>>
    \o (IF b.url = "none" THEN <<>> ELSE <<KeyLine("url", b.url)>>)
RECURSIVE FileOf(_)
FileOf(blocks) ==
    IF blocks = <<>> THEN <<>>
    ELSE BlockLines(Head(blocks)) \o FileOf(Tail(blocks))
BlockSeqs == UNION {[1..n -> Blocks] : n \in 0..MaxSections}

SubLocals(blocks, file) ==
    [blocks |-> blocks, file |-> file, list |-> <<>>, parse_ret |-> 0,
     i |-> 0, sub_ret |-> 0, cached |-> <<>>, inited |-> <<>>, failed |-> {}]

\* cache_clone_repository after process_submodules: a warning, then
\* return CACHE_SUCCESS.
CloneResultStrict(sub_ret) == IF sub_ret # 0 THEN CACHE_ERROR_GIT ELSE CACHE_SUCCESS
CloneResult(sub_ret) == CACHE_SUCCESS

SubFrame == UNCHANGED <<alive, now, upstream_top, cmd, lockState, disk, faults>>

\* process_submodules: parse_gitmodules; -1 is returned at once.
SubParse(p) ==
    /\ alive[p] /\ pc[p] = "sub_parse"
    /\ LET r == parse_gitmodules(loc[p].file)
       IN  /\ loc' = [loc EXCEPT ![p].parse_ret = r.ret, ![p].list = r.list,
                                 ![p].sub_ret = r.ret]
           /\ pc' = [pc EXCEPT ![p] = IF r.ret # 0 \/ Len(r.list) = 0
                                      THEN "sub_return" ELSE "sub_cache"]
    /\ UNCHANGED ret
    /\ SubFrame

\* cache_submodule(repo, sub, config): URL parsing, mkdir and git clone or
\* git fetch, any of which can fail.
SubCache(p) ==
    /\ alive[p] /\ pc[p] = "sub_cache"
    /\ \E r \in {0, -1} :
          loc' = [loc EXCEPT
                     ![p].cached = Append(@, loc[p].list[loc[p].i + 1].name),
                     ![p].failed = IF r # 0 THEN @ \cup {loc[p].i + 1} ELSE @,
                     ![p].sub_ret = IF r # 0 THEN -1 ELSE @]
    /\ pc' = [pc EXCEPT ![p] = "sub_init"]
    /\ UNCHANGED ret
    /\ SubFrame

\* init_submodule_checkout(repo, sub, config); i++ and the loop test.
SubInit(p) ==
    /\ alive[p] /\ pc[p] = "sub_init"
    /\ \E r \in {0, -1} :
          loc' = [loc EXCEPT
                     ![p].inited = Append(@, loc[p].list[loc[p].i + 1].name),
                     ![p].failed = IF r # 0 THEN @ \cup {loc[p].i + 1} ELSE @,
                     ![p].sub_ret = IF r # 0 THEN -1 ELSE @,
                     ![p].i = @ + 1]
    /\ pc' = [pc EXCEPT ![p] = IF loc[p].i + 1 < Len(loc[p].list)
                               THEN "sub_cache" ELSE "sub_return"]
    /\ UNCHANGED ret
    /\ SubFrame

\* process_submodules returns ret; cache_clone_repository returns.
SubReturn(p) ==
    /\ alive[p] /\ pc[p] = "sub_return"
    /\ ret' = [ret EXCEPT ![p] = CloneResult(loc[p].sub_ret)]
    /\ pc' = [pc EXCEPT ![p] = "done"]
    /\ UNCHANGED loc
    /\ SubFrame

InitSubmodule ==
    /\ cmd = [p \in Procs |-> IF p = 1 THEN "submodules" ELSE "none"]
    /\ upstream_top = FALSE
    /\ faults = 0
    /\ fs = [x \in Paths |-> Absent]
    /\ now = 0
    /\ lock = [x \in Paths |-> NoLock]
    /\ target = [p \in Procs |-> "none"]
    /\ cont = [p \in Procs |-> "none"]
    /\ attempts = [p \in Procs |-> 0]
    /\ holder_pid = [p \in Procs |-> -1]
    /\ lock_ret = [p \in Procs |-> CACHE_SUCCESS]
    /\ holds = [p \in Procs |-> {}]
    /\ ret = [p \in Procs |-> CACHE_SUCCESS]
    /\ sib = [x \in Paths |-> [s \in Suffixes |-> [t \in TimeVals |-> Absent]]]
    /\ \/ \E blocks \in BlockSeqs :
             loc = [p \in Procs |-> SubLocals(blocks, FileOf(blocks))]
       \/ \E file \in {<<"missing">>, <<"unreadable">>} :
             loc = [p \in Procs |-> SubLocals(<<>>, file)]
    /\ pc = [p \in Procs |-> IF p = 1 THEN "sub_parse" ELSE "done"]
    /\ alive = [p \in Procs |-> p = 1]

NextSubmodule ==
    \E p \in Procs : SubParse(p) \/ SubCache(p) \/ SubInit(p) \/ SubReturn(p)

SpecSubmodule == InitSubmodule /\ [][NextSubmodule]_vars

\* SpecProbe: NumCloners processes clone a URL into a populated cache whose
\* mirror and checkouts are valid or corrupt.  A git clone that exited with 0 may
\* have left a repository in which the commands of the integrity probe fail.
InitProbe ==
    /\ cmd = [p \in Procs |-> IF p <= NumCloners THEN "clone" ELSE "none"]
    /\ upstream_top \in BOOLEAN
    /\ faults = MaxFaults
    /\ \E mirror_ok \in BOOLEAN, checkout_ok \in BOOLEAN :
          fs = [x \in Paths |->
                  IF x = "mirror"
                  THEN [Bare(mirror_ok, 0) EXCEPT
                           !.meta = [NoMeta EXCEPT !.present = TRUE, !.ref_count = 2]]
                  ELSE [Worktree(checkout_ok, upstream_top, FALSE, 0) EXCEPT
                           !.shape = IF x = "mod" THEN "blobless" ELSE "full"]]
    /\ InitCommon

\* validate_git_repository_integrity: git rev-parse --git-dir, git show-ref or
\* git rev-parse HEAD fail in the directory the clone of p has just written.
CloneLeftBroken(p) ==
    /\ alive[p] /\ pc[p] \in {"ccr_validate", "crc_validate_tmp"}
    /\ faults > 0
    /\ LET x == IF pc[p] = "ccr_validate" THEN "mirror" ELSE loc[p].chk
           t == loc[p].temp_path
       IN  /\ sib[x]["tmp"][t].kind \in {"bare", "wt"}
           /\ sib[x]["tmp"][t].ok
           /\ sib' = [sib EXCEPT ![x]["tmp"][t].ok = FALSE]
    /\ faults' = faults - 1
    /\ UNCHANGED <<pc, lockState, env, fs, loc>>

NextProbe ==
    \/ \E p \in Procs : LockStep(p)
    \/ \E p \in Procs : CloneStep(p)
    \/ \E p \in Procs : CloneLeftBroken(p)

SpecProbe == InitProbe /\ [][NextProbe]_vars

(***************************************************************************)
(* The paths of a repository: src/git-cache.c, repo_info_setup_paths, and  *)
(* src/checkout_repair.c, lines 279-504.  A path is the sequence of its    *)
(* components and a component is a sequence of pieces of text, so that     *)
(* "<owner>-<name>" is the concatenation the code prints.  The cache holds *)
(* the mirrors present under <cache_root>/github.com, the checkout root    *)
(* the directories that hold a .git entry.                                 *)
(***************************************************************************)
MaxCommands == 4
cache_root == <<"~/.cache/git">>
checkout_root == <<"github">>
Owners == {<<"o">>, <<"p">>}
Names == {<<"n">>, <<"r">>}
NULL_PATHNAME == <<>>

\* repo_info_setup_paths: cache_path, checkout_path and modifiable_path of
\* the repository owner/name
repo_info_setup_paths(owner, name) ==
    [cache_path |-> <<cache_root, <<"github.com">>, owner, name>>,
     checkout_path |-> <<checkout_root, owner, name>>,
     modifiable_path |-> <<checkout_root, <<"mithro">>, owner \o <<"-">> \o name>>]

\* repair_repo_callback: the paths built from the owner and the name of the
\* metadata; modifiable_path stays NULL unless access(modifiable_path) == 0
repair_repo_callback(metadata, checkouts) ==
    LET modifiable_path == <<checkout_root, <<"mithro">>, metadata.name>>
    IN  [cache_path |-> <<cache_root, <<"github.com">>, metadata.owner, metadata.name>>,
         checkout_path |-> <<checkout_root, metadata.owner, metadata.name>>,
         modifiable_path |-> IF modifiable_path \in checkouts THEN modifiable_path
                             ELSE NULL_PATHNAME]

\* repair_all_checkouts_for_repo: the paths checkout_needs_repair is called on
repair_all_checkouts_for_repo(repo, checkouts) ==
    {c \in {repo.checkout_path, repo.modifiable_path} :
        c # NULL_PATHNAME /\ c \in checkouts}

\* detect_orphaned_checkouts: the paths the callback is called on; the
\* callback returns 0
detect_orphaned_checkouts(mirrors, checkouts) ==
    {c \in checkouts :
        <<cache_root, <<"github.com">>, c[2], c[3]>> \notin mirrors}

TreeLocals ==
    [mirrors |-> {}, checkouts |-> {}, origin |-> {}, swept |-> {},
     orphans |-> {}, last |-> "none", n |-> 0]

TreeFrame == UNCHANGED <<pc, alive, now, upstream_top, cmd, ret, lockState, disk, faults>>

\* git-cache clone <url of owner/name>: the mirror and both checkouts exist
\* afterwards; origin remembers which repository a checkout was cloned from
TreeClone(p) ==
    /\ alive[p] /\ pc[p] = "tree" /\ loc[p].n < MaxCommands
    /\ \E owner \in Owners, name \in Names :
          LET repo == repo_info_setup_paths(owner, name)
              made == {repo.checkout_path, repo.modifiable_path}
          IN  loc' = [loc EXCEPT
                        ![p].mirrors = @ \cup {repo.cache_path},
                        ![p].checkouts = @ \cup made,
                        ![p].origin = @ \cup {[path |-> c, cache_path |-> repo.cache_path] :
                                                 c \in made},
                        ![p].last = "clone", ![p].n = @ + 1]
    /\ TreeFrame

\* The user removes a mirror, or a checkout, from the disk.
TreeRemove(p) ==
    /\ alive[p] /\ pc[p] = "tree" /\ loc[p].n < MaxCommands
    /\ \/ \E m \in loc[p].mirrors :
             loc' = [loc EXCEPT ![p].mirrors = @ \ {m},
                                ![p].last = "remove", ![p].n = @ + 1]
       \/ \E c \in loc[p].checkouts :
             loc' = [loc EXCEPT ![p].checkouts = @ \ {c},
                                ![p].last = "remove", ![p].n = @ + 1]
    /\ TreeFrame

\* repair_all_outdated_checkouts: cache_metadata_list_all calls
\* repair_repo_callback with the metadata of every mirror
TreeSweep(p) ==
    /\ alive[p] /\ pc[p] = "tree" /\ loc[p].n < MaxCommands
    /\ loc' = [loc EXCEPT
                 ![p].swept =
                     {LET repo == repair_repo_callback([owner |-> m[3], name |-> m[4]],
                                                       loc[p].checkouts)
                      IN  [owner |-> m[3], name |-> m[4], repo |-> repo,
                           checked |-> repair_all_checkouts_for_repo(repo,
                                                                     loc[p].checkouts)] :
                      m \in loc[p].mirrors},
                 ![p].last = "sweep", ![p].n = @ + 1]
    /\ TreeFrame

\* detect_orphaned_checkouts(config, callback, user_data)
TreeDetect(p) ==
    /\ alive[p] /\ pc[p] = "tree" /\ loc[p].n < MaxCommands
    /\ loc' = [loc EXCEPT
                 ![p].orphans = detect_orphaned_checkouts(loc[p].mirrors,
                                                          loc[p].checkouts),
                 ![p].last = "detect", ![p].n = @ + 1]
    /\ TreeFrame

InitTree ==
    /\ cmd = [p \in Procs |-> IF p = 1 THEN "tree" ELSE "none"]
    /\ upstream_top = FALSE
    /\ faults = 0
    /\ fs = [x \in Paths |-> Absent]
    /\ now = 0
    /\ lock = [x \in Paths |-> NoLock]
    /\ target = [p \in Procs |-> "none"]
    /\ cont = [p \in Procs |-> "none"]
    /\ attempts = [p \in Procs |-> 0]
    /\ holder_pid = [p \in Procs |-> -1]
    /\ lock_ret = [p \in Procs |-> CACHE_SUCCESS]
    /\ holds = [p \in Procs |-> {}]
    /\ ret = [p \in Procs |-> CACHE_SUCCESS]
    /\ sib = [x \in Paths |-> [s \in Suffixes |-> [t \in TimeVals |-> Absent]]]
    /\ loc = [p \in Procs |-> TreeLocals]
    /\ pc = [p \in Procs |-> IF p = 1 THEN "tree" ELSE "done"]
    /\ alive = [p \in Procs |-> p = 1]

NextTree ==
    \/ \E p \in Procs : TreeClone(p)
    \/ \E p \in Procs : TreeRemove(p)
    \/ \E p \in Procs : TreeSweep(p)
    \/ \E p \in Procs : TreeDetect(p)

SpecTree == InitTree /\ [][NextTree]_vars

\* SpecMix: NumCloners processes run clone, sync or repair on one URL, on
\* an empty cache or on one that a clone populated; no process is killed.
\* Every process that can take a step eventually takes one.
MixStep(p) ==
    \/ LockStep(p)
    \/ CloneMkdirCache(p) \/ CloneMkdirCheckout(p) \/ RetResult(p)
    \/ CcrInspect(p) \/ CcrFetch(p) \/ CcrSyncLoad(p) \/ CcrSyncSave(p)
    \/ CcrRm(p) \/ CcrRmEnd(p) \/ CcrClone(p) \/ CcrCloneEnd(p)
    \/ CcrValidate(p) \/ CcrMv(p) \/ CcrMeta(p) \/ CcrFailRm(p)
    \/ CrcValidate(p) \/ CrcInspect(p)
    \/ CrcRm(p) \/ CrcRmEnd(p) \/ CrcCleanup(p) \/ CrcClone(p) \/ CrcCloneEnd(p)
    \/ CrcValidateTmp(p) \/ CrcMv(p) \/ CrcIncrLoad(p) \/ CrcIncrSave(p)
    \/ CrcFailRm(p) \/ CrcReturn(p)
    \/ SyncStep(p) \/ SweepStep(p)
    \/ RcoRm(p) \/ RcoRmEnd(p) \/ RcoClone(p) \/ RcoCloneEnd(p) \/ RcoReturn(p)

InitMix ==
    /\ cmd \in [Procs -> {"clone", "sync", "repair", "none"}]
    /\ \A p \in Procs : cmd[p] = "none" <=> p > NumCloners
    /\ upstream_top = FALSE
    /\ faults = MaxFaults
    /\ \E populated \in BOOLEAN :
          fs = [x \in Paths |->
                  IF ~populated THEN Absent
                  ELSE IF x = "mirror"
                  THEN [Bare(TRUE, 0) EXCEPT
                           !.meta = [NoMeta EXCEPT !.present = TRUE, !.ref_count = 2]]
                  ELSE [Worktree(TRUE, FALSE, FALSE, 0) EXCEPT
                           !.shape = IF x = "mod" THEN "blobless" ELSE "full"]]
    /\ InitCommon

NextMix == \E p \in Procs : MixStep(p)

SpecMix == InitMix /\ [][NextMix]_vars /\ \A p \in Procs : WF_vars(MixStep(p))

(***************************************************************************)
(* Properties of the lock manager.                                         *)
(***************************************************************************)
HoldersOf(x) == {p \in Procs : alive[p] /\ x \in holds[p]}

\* C1: acquire_lock and release_lock give mutual exclusion: at no time do
\* two live processes hold the lock of the same path, reclaims included.
C1_MutualExclusion == \A x \in Paths : Cardinality(HoldersOf(x)) <= 1

\* The lock file of x is older than LOCK_TIMEOUT.
LockOld(x) == lock[x] # NoLock /\ now - lock[x].mtime > LOCK_TIMEOUT

\* The lock file of x records a process that is not running any more.
LockHolderDead(x) == lock[x] # NoLock /\ lock[x].pid > 0 /\ ~alive[lock[x].pid]

Quiescent == \A p \in Procs : pc[p] \in {"done", StartOf(cmd[p])}

\* Every command of the run has returned.
AllDone == \A p \in Procs : pc[p] = "done"

\* The processes that ran a command and returned CACHE_SUCCESS.
Succeeded == {p \in Procs : cmd[p] # "none" /\ pc[p] = "done" /\ ret[p] = CACHE_SUCCESS}

\* The <path>.tmp.<time> siblings that exist.
TempSiblings(x) == {t \in TimeVals : directory_exists(sib[x]["tmp"][t])}

\* The checkouts that exist as working trees.
ExistingCheckouts == {c \in Checkouts : fs[c].kind = "wt"}

\* C2: once every process has ended and one of them was killed on its way,
\* no canonical path is half-populated (it is absent, or whole), and a path
\* has at most one <path>.tmp.* sibling.
C2_KillLeavesPathWhole ==
    ((\A p \in Procs : ~alive[p]) /\ (\E p \in Procs : pc[p] = "killed"))
       => \A x \in Paths : /\ fs[x].kind # "partial"
                           /\ Cardinality(TempSiblings(x)) <= 1

\* C3: of the processes that clone one URL concurrently, at most one runs the
\* bare clone and renames it into the mirror path.
C3_OneMaterialization ==
    Cardinality({p \in Procs : loc[p].materialized}) <= 1

\* C4: when the clones of one URL into an empty cache have all returned
\* CACHE_SUCCESS, the cache is as after one fresh clone: the mirror is valid,
\* both checkouts exist and ref_count is 2.  (Stated for the usual upstream,
\* whose tree has no top-level HEAD, refs and objects.)
C4_ConcurrentClonesConverge ==
    (/\ AllDone
     /\ ~upstream_top
     /\ \A p \in Procs : cmd[p] = "clone" => ret[p] = CACHE_SUCCESS)
       => /\ validate_git_repository(fs["mirror"], TRUE)
          /\ \A c \in Checkouts : fs[c].kind = "wt" /\ fs[c].ok
          /\ fs["mirror"].meta.present
          /\ fs["mirror"].meta.ref_count = 2

\* The canonical paths that the next step of p creates, fetches into, resets,
\* moves, removes or clones into.
MutatedPaths(p) ==
    IF pc[p] \in {"clone_mkdir_cache", "ccr_fetch", "ccr_backup", "ccr_rm", "ccr_rm_end",
                  "ccr_mv", "ccr_restore", "sync_fetch",
                  "rcr_backup", "rcr_clone", "rcr_clone_end", "rcr_restore"}
    THEN {"mirror"}
    ELSE IF pc[p] \in {"crc_pull", "crc_backup", "crc_rm", "crc_rm_end", "crc_mv",
                       "crc_restore", "rco_rm", "rco_rm_end", "rco_clone", "rco_clone_end"}
    THEN {loc[p].chk}
    ELSE IF pc[p] \in {"clone_mkdir_checkout", "upd_fetch", "upd_reset", "upd_clean"}
    THEN {"ro"}
    ELSE {}

\* C5: a process about to create, fetch into, reset, move, remove or clone
\* into a canonical path holds the lock of that path.
C5_MutationUnderLock ==
    \A p \in Procs : alive[p] => MutatedPaths(p) \subseteq holds[p]

\* C6: a process inside a load-mutate-save of the metadata of the mirror
\* (update_sync, update_access, increment_ref) holds the lock of the mirror.
C6_MetadataUnderMirrorLock ==
    \A p \in Procs :
       (alive[p] /\ pc[p] \in {"ccr_sync_load", "ccr_sync_save", "crc_access_load",
                               "crc_access_save", "crc_incr_load", "crc_incr_save"})
          => "mirror" \in holds[p]

\* C7: a checkout with uncommitted changes stays a working tree with those
\* changes whatever step a command takes.
C7_DirtyCheckoutKept ==
    [][\A c \in Checkouts :
          (fs[c].kind = "wt" /\ fs[c].dirty) => (fs'[c].kind = "wt" /\ fs'[c].dirty)]_vars

\* C8: when the corrupt repository was moved to a backup and the clone, the
\* validation or the rename then fails, the operation is returning an error,
\* its temporary directory is removed, and the restore puts the content of the
\* backup back at the canonical path.
C8_FailureRestoresBackup ==
    [][\A p \in Procs :
          /\ (pc[p] = "ccr_fail_rm" /\ pc'[p] # pc[p] /\ alive'[p])
                => ~directory_exists(sib'["mirror"]["tmp"][loc[p].temp_path])
          /\ (pc[p] = "crc_fail_rm" /\ pc'[p] # pc[p] /\ alive'[p])
                => ~directory_exists(sib'[loc[p].chk]["tmp"][loc[p].temp_path])
          /\ (pc[p] = "ccr_restore" /\ pc'[p] # pc[p] /\ alive'[p])
                => /\ loc[p].result # CACHE_SUCCESS
                   /\ fs'["mirror"] = sib["mirror"]["backup"][loc[p].backup_path]
          /\ (pc[p] = "crc_restore" /\ pc'[p] # pc[p] /\ alive'[p])
                => /\ loc[p].result # CACHE_SUCCESS
                   /\ fs'[loc[p].chk] = sib[loc[p].chk]["backup"][loc[p].backup_path]]_vars

\* C9: when no command is under way and the commands that ended all returned
\* CACHE_SUCCESS, ref_count in the metadata of the mirror is the number of
\* checkouts that exist.
C9_RefCountIsCheckoutCount ==
    (/\ Quiescent
     /\ Succeeded # {}
     /\ \A p \in Procs : pc[p] = "done" /\ cmd[p] # "none" => p \in Succeeded)
       => /\ fs["mirror"].meta.present
          /\ fs["mirror"].meta.ref_count = Cardinality(ExistingCheckouts)

\* C11: a call of acquire_lock on a path whose lock file names a dead
\* process does not fail: when it returns, it returns CACHE_SUCCESS.
C11_DeadHolderLockObtained ==
    \A p \in Procs :
       (alive[p] /\ pc[p] = "sync_locked") => lock_ret[p] = CACHE_SUCCESS

\* The statements of acquire_lock.
AcquirePcs == {"acq_open", "acq_write", "acq_stale", "acq_readpid", "acq_probe",
               "acq_unlink", "acq_sleep"}

\* C12: every call of acquire_lock terminates: no process stays inside the
\* acquisition loop for ever.
C12_AcquireTerminates ==
    \A p \in Procs : []<>(pc[p] \notin AcquirePcs)

\* C13: the unlink of release_lock removes no lock file that another process
\* created: when it removes a file, the caller created that file.
C13_ReleaseRemovesOwnLockOnly ==
    [][\A p \in Procs :
          (pc[p] = "rel_unlink" /\ pc'[p] # "rel_unlink" /\ alive'[p]
             /\ lock[target[p]] # NoLock)
             => lock[target[p]].ino = p]_vars

\* C14: a process that waits for a lock holds no lock (so that the wait-for
\* relation has no cycle), and every clone, sync and repair process ends: it
\* returns its result, which is an error when a lock timed out.
C14_NoDeadlock ==
    /\ [](\A p \in Procs : pc[p] \in AcquirePcs => holds[p] = {})
    /\ \A p \in Procs : <>(pc[p] = "done")

\* A process waits for the lock of the mirror while another one holds it.
C14_Witness ==
    \E p, q \in Procs :
       /\ p # q
       /\ "mirror" \in holds[p]
       /\ pc[q] = "acq_sleep" /\ target[q] = "mirror"

\* C15: once a clone has started the git clone that materializes the mirror,
\* no <mirror>.tmp.<timestamp> directory other than its own is left.
C15_StaleTempRemoved ==
    \A p \in Procs :
       (alive[p] /\ pc[p] = "ccr_clone_end")
          => \A t \in TimeVals \ {loc[p].temp_path} :
                sib["mirror"]["tmp"][t].kind = "absent"

\* C16: called with max_retries = 3, the loop runs the command at most 3
\* times; exit code 0 returns 0 and exit codes 1 and 128 return the code, both
\* without a further run; any other exit code is followed by a sleep (1 s the
\* first time, twice the previous one after that) and another run, and by
\* the return of -1 when it was the third run.  Whatever max_retries is, no
\* sleep is longer than 16 s.
C16_RetryLoop ==
    \A p \in Procs :
       LET l == loc[p]
           three == l.max_retries = 3
       IN  /\ pc[p] \in {"retry_run", "retry_sleep", "retry_done"} =>
                /\ three => l.runs <= 3
                /\ \A i \in 1..Len(l.slept) :
                      /\ l.slept[i] <= 16
                      /\ l.slept[i] = IF i = 1 THEN 1
                                      ELSE IF l.slept[i-1] = 16 THEN 16
                                      ELSE 2 * l.slept[i-1]
           /\ pc[p] = "retry_sleep" =>
                /\ l.exit_code \notin {0, 1, 128}
                /\ l.runs < l.max_retries
                /\ Len(l.slept) = l.runs - 1
           /\ pc[p] = "retry_run" => Len(l.slept) = l.runs
           /\ pc[p] = "retry_done" =>
                /\ l.exit_code = 0 => l.result = 0
                /\ l.exit_code \in {1, 128} => l.result = l.exit_code
                /\ l.exit_code \notin {0, 1, 128} =>
                      /\ l.result = -1
                      /\ l.runs = l.max_retries
                /\ Len(l.slept) = l.runs - 1

\* Three runs failed with a retryable exit code: the function slept 1 s and
\* 2 s and returned -1.
C16_Witness ==
    \E p \in Procs :
       /\ pc[p] = "retry_done" /\ loc[p].max_retries = 3
       /\ loc[p].runs = 3 /\ loc[p].slept = <<1, 2>> /\ loc[p].result = -1

\* C17: a clone that gives up the git clone of the mirror or of a checkout
\* after a retryable exit code (not 0, 1 or 128) does so only when that was
\* the attempt number max_retries.
C17_BothClonesRetried ==
    [][\A p \in Procs :
          (/\ \/ pc[p] = "ccr_clone_end" /\ pc'[p] = "ccr_fail_rm"
              \/ pc[p] = "crc_clone_end" /\ pc'[p] = "crc_fail_rm"
           /\ alive'[p]
           /\ loc'[p].exit_code \notin {0, 1, 128})
             => loc[p].attempt + 1 = max_retries]_vars

\* C18: a clone leaves the canonical directories in place: it never comes
\* to remove a checkout directory that holds a valid checkout (to clone it
\* again and count it once more in ref_count).
C18_SecondCloneKeepsCheckouts ==
    \A p \in Procs :
       (alive[p] /\ cmd[p] = "clone" /\ pc[p] = "crc_rm")
          => ~validate_git_repository(fs[loc[p].chk], FALSE)

\* A clone has ended, no Git invocation has failed, and no other process has
\* taken a step: the clone ran alone on the empty cache.
CloneAlone(p) ==
    /\ cmd[p] = "clone" /\ pc[p] = "done"
    /\ faults = MaxFaults
    /\ \A q \in Procs \ {p} : pc[q] = StartOf(cmd[q])

\* C19: a clone with strategy full into an empty cache, every Git invocation
\* succeeding, ends with success, a valid mirror, both checkouts, and a
\* metadata file with strategy full, ref_count 2 and positive created_time
\* and last_sync_time.
C19_FullCloneEndState ==
    \A p \in Procs :
       (CloneAlone(p) /\ loc[p].strategy = "CLONE_STRATEGY_FULL")
          => /\ ret[p] = CACHE_SUCCESS
             /\ validate_git_repository(fs["mirror"], TRUE)
             /\ validate_git_repository(fs["ro"], FALSE)
             /\ validate_git_repository(fs["mod"], FALSE)
             /\ fs["mirror"].meta.present
             /\ fs["mirror"].meta.strategy = "full"
             /\ fs["mirror"].meta.ref_count = 2
             /\ fs["mirror"].meta.created_time > 0
             /\ fs["mirror"].meta.last_sync_time > 0

\* The full clone has ended alone.
C19_Witness ==
    \E p \in Procs : CloneAlone(p) /\ loc[p].strategy = "CLONE_STRATEGY_FULL"

\* C20: whatever strategy was requested, no mirror (in its temporary or in
\* its canonical path) and no modifiable checkout is a shallow repository;
\* only the read-only checkout is one, when shallow was requested.
C20_MirrorNeverShallow ==
    /\ fs["mirror"].shape # "shallow"
    /\ \A t \in TimeVals : sib["mirror"]["tmp"][t].shape # "shallow"
    /\ fs["mod"].shape # "shallow"
    /\ fs["ro"].shape = "shallow" =>
          \E p \in Procs : loc[p].strategy = "CLONE_STRATEGY_SHALLOW"

\* Shallow was requested: the mirror is installed and the read-only
\* checkout is shallow.
C20_Witness ==
    /\ \E p \in Procs : loc[p].strategy = "CLONE_STRATEGY_SHALLOW"
    /\ validate_git_repository(fs["mirror"], TRUE)
    /\ fs["ro"].shape = "shallow"

\* C21: a checkout that a clone classifies as a valid repository, and goes
\* on to update in place with git pull, has an alternates file that names
\* the objects directory of its own mirror.
C21_ValidCheckoutUsesOwnMirror ==
    \A p \in Procs :
       (alive[p] /\ pc[p] = "crc_pull") => fs[loc[p].chk].alt = "own"

\* C22: the modifiable checkout, whenever it exists as a repository, is a
\* blobless clone.
C22_ModifiableAlwaysBlobless ==
    fs["mod"].kind = "wt" => fs["mod"].shape = "blobless"

\* Process p is the only one that has taken a step.
RanAlone(p) == \A q \in Procs \ {p} : pc[q] = StartOf(cmd[q])

C24_PersistedStrategyNeverAuto ==
    /\ fs["mirror"].meta.strategy \in {"full", "shallow", "treeless", "blobless"}
    /\ \A x \in Paths, sfx \in Suffixes, t \in TimeVals :
          sib[x][sfx][t].meta.strategy \in {"full", "shallow", "treeless", "blobless"}

\* Auto was requested and was still auto after the detection, and the
\* metadata file of the mirror has been written.
C24_Witness ==
    /\ \E p \in Procs : loc[p].strategy = "CLONE_STRATEGY_AUTO"
    /\ fs["mirror"].meta.present

\* C25: in every persisted metadata record, whatever sequence of create,
\* save, update_sync, update_access, increment_ref and decrement_ref produced
\* it, ref_count is not negative (a decrement at 0 leaves 0) and, once the
\* record has a synchronization time, created_time <= last_sync_time.
C25_RefCountAndTimes ==
    LET d == fs["mirror"].meta
        m == cache_metadata_load(d).metadata
    IN  (cmd[1] = "meta" /\ d.present /\ d.wellformed) =>
           /\ d.ref_count >= 0
           /\ m.ref_count >= 0
           /\ (m.last_sync_time # 0) => (m.created_time <= m.last_sync_time)
C25_Witness ==
    /\ cmd[1] = "meta"
    /\ loc[1].last = "decrement_ref"
    /\ loc[1].result = METADATA_SUCCESS
    /\ ~loc[1].paired
    /\ fs["mirror"].meta.ref_count = 0
    /\ fs["mirror"].meta.last_sync_time > fs["mirror"].meta.created_time
    /\ fs["mirror"].meta.created_time > 0

\* C26: a cache_metadata_load that directly follows a cache_metadata_save
\* succeeds and fills in a record equal, field by field, to the one that was
\* saved (a NULL string is read back as NULL).
C26_SaveLoadRoundTrip ==
    (cmd[1] = "meta" /\ loc[1].last = "load" /\ loc[1].fresh) =>
       /\ loc[1].result = METADATA_SUCCESS
       /\ loc[1].loaded = loc[1].metadata

\* C27: after cache_metadata_increment_ref directly followed by
\* cache_metadata_decrement_ref, the record in the file has the ref_count it
\* had before the two calls and differs from the record before them in no
\* field other than last_access_time.
C27_IncThenDecRestores ==
    (cmd[1] = "meta" /\ loc[1].last = "decrement_ref" /\ loc[1].paired
        /\ loc[1].result = METADATA_SUCCESS) =>
       LET m == cache_metadata_load(fs["mirror"].meta).metadata
       IN  /\ m.ref_count = loc[1].start.ref_count
           /\ [m EXCEPT !.last_access_time = 0]
                 = [loc[1].start EXCEPT !.last_access_time = 0]
C27_Witness ==
    /\ cmd[1] = "meta" /\ loc[1].last = "decrement_ref" /\ loc[1].paired
    /\ loc[1].result = METADATA_SUCCESS
    /\ loc[1].start.ref_count = 1
    /\ fs["mirror"].meta.last_access_time # loc[1].start.last_access_time
    /\ "type" \in fs["mirror"].meta.keys

\* C28: cache_metadata_load returns METADATA_ERROR_NOT_FOUND when there is no
\* file and METADATA_ERROR_CORRUPT when the file is no JSON document; on a
\* document it succeeds, and a member the document lacks is read as its
\* default: strategy full, type unknown, every time 0.
C28_LoadDefaults ==
    LET d == fs["mirror"].meta
        m == loc[1].loaded
    IN  (cmd[1] = "meta" /\ loc[1].last = "load") =>
           /\ ~d.present => loc[1].result = METADATA_ERROR_NOT_FOUND
           /\ (d.present /\ ~d.wellformed) =>
                 loc[1].result = METADATA_ERROR_CORRUPT
           /\ (d.present /\ d.wellformed) =>
                 /\ loc[1].result = METADATA_SUCCESS
                 /\ "strategy" \notin d.keys => m.strategy = "CLONE_STRATEGY_FULL"
                 /\ "type" \notin d.keys => m.type = "REPO_TYPE_UNKNOWN"
                 /\ "created_time" \notin d.keys => m.created_time = 0
                 /\ "last_sync_time" \notin d.keys => m.last_sync_time = 0
                 /\ "last_access_time" \notin d.keys => m.last_access_time = 0

\* The shapes of URL the parser is documented to take, naming the
\* repository owner/name on a supported host.
ListedShape(u) ==
    /\ u.host \in SupportedHosts /\ u.owner # "" /\ u.name # ""
    /\ \/ /\ u.scheme \in {"https", "http", "git", "git+https"}
          /\ u.user = "none" /\ u.port = "none" /\ u.sep = "/"
       \/ u.scheme = "git+ssh" /\ u.port = "none" /\ u.sep = "/"
       \/ u.scheme = "ssh" /\ u.sep = "/"
       \/ u.scheme = "none" /\ u.user # "none" /\ u.port = "none" /\ u.sep = ":"
       \/ u.scheme = "none" /\ u.user = "none" /\ u.port = "none" /\ u.sep = "/"

\* C29: a URL in one of the listed shapes (https, http, git, git+https,
\* git+ssh, ssh with optional user and port, user@host:owner/name, bare
\* host/owner/name, with or without .git or a trailing slash) that is
\* accepted parses to the owner and the name it was written with, case kept.
C29_ShapesShareOwnerAndName ==
    (cmd[1] = "parse" /\ pc[1] = "done" /\ ret[1] = CACHE_SUCCESS
        /\ ListedShape(loc[1].parts)) =>
       /\ loc[1].owner = <<loc[1].parts.owner>>
       /\ loc[1].name = <<loc[1].parts.name>>

\* C30: the parser rejects every file:// URL, every URL whose host is not a
\* supported one (the user@host:owner/name shape included), and every URL
\* whose owner or name is empty once .git and trailing slashes are removed.
C30_RejectsUnsupported ==
    LET u == loc[1].parts
    IN  (cmd[1] = "parse" /\ pc[1] = "done"
            /\ (u.scheme = "file" \/ u.host \notin SupportedHosts
                  \/ u.owner = "" \/ u.name = "")) =>
           ret[1] # CACHE_SUCCESS

\* The decision table of the strategy detector, rows in the listed order,
\* the first row whose condition holds giving the recommendation.
DecisionTable(a, c) ==
    LET size == a.estimated_size \div MegaByte
        threshold == c.size_threshold_mb
    IN  IF size < 10 /\ a.commit_count < 100
        THEN Recommend("CLONE_STRATEGY_FULL", 95, "CLONE_STRATEGY_SHALLOW")
        ELSE IF a.is_monorepo
        THEN Recommend("CLONE_STRATEGY_BLOBLESS", 90, "CLONE_STRATEGY_TREELESS")
        ELSE IF (size > threshold \/ a.commit_count > c.depth_threshold)
                /\ c.prefer_speed /\ (a.has_large_files \/ a.is_monorepo)
        THEN Recommend("CLONE_STRATEGY_BLOBLESS", 85, "CLONE_STRATEGY_TREELESS")
        ELSE IF size > 500 /\ c.prefer_speed
        THEN Recommend("CLONE_STRATEGY_TREELESS", 80, "CLONE_STRATEGY_BLOBLESS")
        ELSE IF size > threshold /\ c.prefer_speed
        THEN Recommend("CLONE_STRATEGY_SHALLOW", 75, "CLONE_STRATEGY_TREELESS")
        ELSE IF size > threshold /\ ~c.prefer_speed
        THEN Recommend("CLONE_STRATEGY_FULL", 70, "CLONE_STRATEGY_TREELESS")
        ELSE IF a.activity_level > 50 /\ c.prefer_speed
        THEN Recommend("CLONE_STRATEGY_SHALLOW", 70, "CLONE_STRATEGY_FULL")
        ELSE IF a.activity_level < 5
        THEN Recommend("CLONE_STRATEGY_FULL", 80, "CLONE_STRATEGY_SHALLOW")
        ELSE IF 2 * size > threshold
        THEN Recommend("CLONE_STRATEGY_TREELESS", 60, "CLONE_STRATEGY_SHALLOW")
        ELSE Recommend("CLONE_STRATEGY_FULL", 65, "CLONE_STRATEGY_SHALLOW")

\* C31: for every analysis and configuration the detector returns the
\* strategy, confidence and fallback of the first row of the decision table
\* whose condition holds (small repository, then monorepo, then the
\* threshold rows, then the default).
C31_FirstRowOfTable ==
    (cmd[1] = "detect" /\ pc[1] = "done") =>
       loc[1].recommendation = DecisionTable(loc[1].analysis, loc[1].config)

\* C32: the detector picks full for a repository of 1 MB with 50 commits
\* and blobless for a repository of 600 MB flagged as a monorepo, whatever
\* the preference and the thresholds of the configuration.
C32_SmallFullMonorepoBlobless ==
    LET a == loc[1].analysis
    IN  (cmd[1] = "detect" /\ pc[1] = "done") =>
           /\ (a.estimated_size = MegaByte /\ a.commit_count = 50) =>
                 loc[1].recommendation.strategy = "CLONE_STRATEGY_FULL"
           /\ (a.estimated_size = 600 * MegaByte /\ a.is_monorepo) =>
                 loc[1].recommendation.strategy = "CLONE_STRATEGY_BLOBLESS"

\* The names of the submodules of a list, in order.
RECURSIVE NamesOf(_)
NamesOf(list) ==
    IF list = <<>> THEN <<>> ELSE <<Head(list).name>> \o NamesOf(Tail(list))

\* C33: a failure of cache_submodule or init_submodule_checkout for one
\* submodule does not stop the walk and does not fail the clone: both are
\* called for every submodule of the list, in order, and the clone whose
\* mirror and checkouts succeeded returns CACHE_SUCCESS.
C33_SubmoduleFailuresTolerated ==
    (cmd[1] = "submodules" /\ pc[1] = "done") =>
       /\ ret[1] = CACHE_SUCCESS
       /\ loc[1].parse_ret = 0 =>
             /\ loc[1].cached = NamesOf(loc[1].list)
             /\ loc[1].inited = NamesOf(loc[1].list)
C33_Witness ==
    /\ cmd[1] = "submodules" /\ pc[1] = "done"
    /\ Len(loc[1].list) = 2 /\ loc[1].sub_ret = -1
    /\ loc[1].failed = {1}
    /\ Len(loc[1].cached) = 2 /\ Len(loc[1].inited) = 2

\* The sections the parser is to return: the blocks, in file order, whose
\* header is a named submodule and that have a path and a url with a value.
RECURSIVE CompleteSections(_)
CompleteSections(blocks) ==
    IF blocks = <<>> THEN <<>>
    ELSE LET b == Head(blocks)
         IN  (IF b.header \notin {"", "core"} /\ b.path # "none"
                    /\ b.url \notin {"none", ""}
              THEN <<[EmptyInfo EXCEPT !.name = b.header, !.path = b.path,
                                       !.url = b.url]>>
              ELSE <<>>)
             \o CompleteSections(Tail(blocks))

C36_RenamedOnlyIfValid ==
    [][\A p \in Procs :
          LET c == loc[p].chk
              t == loc[p].temp_path
          IN  /\ (pc[p] = "ccr_mv" /\ pc'[p] # pc[p] /\ fs'["mirror"] # fs["mirror"])
                    => validate_git_repository(sib["mirror"]["tmp"][t], TRUE)
              /\ (pc[p] = "crc_mv" /\ pc'[p] # pc[p] /\ fs'[c] # fs[c])
                    => validate_git_repository(sib[c]["tmp"][t], FALSE)
              /\ (/\ pc[p] = "ccr_validate" /\ pc'[p] # pc[p] /\ alive'[p]
                  /\ ~validate_git_repository(sib["mirror"]["tmp"][t], TRUE))
                    => pc'[p] = "ccr_fail_rm"
              /\ (/\ pc[p] = "crc_validate_tmp" /\ pc'[p] # pc[p] /\ alive'[p]
                  /\ ~validate_git_repository(sib[c]["tmp"][t], FALSE))
                    => pc'[p] = "crc_fail_rm"]_vars

\* C37: when the mirror is valid and the fetch of the fast path fails,
\* create_cache_repository keeps CACHE_SUCCESS as its result, backs up,
\* removes and clones nothing, leaves the mirror and every field of its
\* metadata (last_sync_time included) as they were, and calls release_lock,
\* after which the lock file of the mirror does not carry the pid of the
\* caller.
C37_FailedFetchKeepsMirror ==
    [][\A p \in Procs :
          /\ (/\ pc[p] = "ccr_fetch" /\ pc'[p] # pc[p] /\ alive'[p]
              /\ pc'[p] # "ccr_sync_load")
                => /\ fs' = fs /\ sib' = sib
                   /\ loc'[p].result = CACHE_SUCCESS
                   /\ loc'[p].backup_path = NULL_PATH /\ loc'[p].temp_path = NULL_PATH
                   /\ pc'[p] = "rel_read" /\ target'[p] = "mirror"
                   /\ cont'[p] = "crc_validate"
          /\ (/\ pc[p] \in {"rel_read", "rel_unlink"} /\ target[p] = "mirror"
              /\ pc'[p] = "crc_validate")
                => /\ read_lock_pid("mirror")' # p
                   /\ "mirror" \notin holds'[p]
                   /\ fs' = fs /\ sib' = sib]_vars

\* The one fault of the run was the fetch of process 1, which found a valid
\* mirror and went on to its checkouts; no other process has taken a step.
C37_Witness ==
    /\ pc[1] = "crc_validate" /\ faults = 0
    /\ \A q \in Procs \ {1} : pc[q] \in {"clone_mkdir_cache", "done"}
    /\ ~loc[1].materialized
    /\ validate_git_repository(fs["mirror"], TRUE)
    /\ fs["mirror"].meta.last_sync_time = 0
    /\ lock["mirror"] = NoLock

\* C38: for every persisted mirror the repair sweep reconstructs the path
\* triple that clone derives for that owner and name (the mirror path,
\* <checkout_root>/<owner>/<name> and <checkout_root>/mithro/<owner>-<name>)
\* and applies the needs-repair predicate to both of those checkouts, when
\* they exist.
C38_SweepUsesClonePaths ==
    \A p \in Procs : loc[p].last = "sweep" =>
        \A s \in loc[p].swept :
            LET repo == repo_info_setup_paths(s.owner, s.name)
            IN  /\ s.repo.cache_path = repo.cache_path
                /\ s.repo.checkout_path = repo.checkout_path
                /\ s.repo.modifiable_path \in {repo.modifiable_path, NULL_PATHNAME}
                /\ s.checked = {repo.checkout_path, repo.modifiable_path}
                                   \cap loc[p].checkouts

\* C39: detect_orphaned_checkouts calls the visitor for exactly the
\* checkouts whose mirror is absent: no checkout, read-only or modifiable,
\* whose mirror exists is reported, and every checkout whose mirror is
\* absent is reported.
C39_OrphansAreMirrorless ==
    \A p \in Procs : loc[p].last = "detect" =>
        loc[p].orphans =
            {c \in loc[p].checkouts :
                \A o \in loc[p].origin : o.path = c => o.cache_path \notin loc[p].mirrors}

\* C40: on every return path of create_cache_repository, of
\* create_reference_checkout and of the per-mirror step of cache_sync, with
\* success or with an error, the lock the process acquired has been released:
\* once the operation has returned (the process is at the statement that
\* follows it, starts its next acquire_lock, or has ended) the process holds
\* no lock, and a lock file carries the pid of a running or ended process
\* only between its acquire_lock and the end of its release_lock.
C40_LockReleasedOnReturn ==
    \A p \in Procs :
        /\ pc[p] \in {"done", "ret_result", "crc_validate", "crc_return",
                      "sync_summary", "acq_open", "acq_stale", "acq_readpid",
                      "acq_probe", "acq_unlink", "acq_sleep"}
              => holds[p] = {}
        /\ \A x \in Paths :
              (pc[p] # "killed" /\ read_lock_pid(x) = p)
                  => \/ x \in holds[p]
                     \/ target[p] = x /\ pc[p] \in {"rel_read", "rel_unlink"}

\* create_cache_repository is about to return CACHE_ERROR_GIT after its clone
\* failed under the lock of the mirror, and no lock file is left.
C40_Witness ==
    \E p \in Procs :
        /\ cmd[p] = "clone" /\ pc[p] = "ret_result"
        /\ loc[p].result = CACHE_ERROR_GIT
        /\ lock["mirror"] = NoLock /\ holds[p] = {}

====
